---- MODULE Spec2Model ----
(***************************************************************************)
(* Model of the file transfer orchestrator of the Files Import Control     *)
(* (src/FilesImportControl/FilesImportControl.tsx and index.ts).           *)
(*                                                                         *)
(* Strings the code inspects character by character (file names, MIME      *)
(* types, the allow-list) are sequences of one-character strings.          *)
(***************************************************************************)
EXTENDS Integers, Sequences, FiniteSets, TLC

VARIABLES
    props,                  \* the bound configuration (IFilesImportControlProps)
    fileStates,             \* useState<IFileState[]>                  (line 158)
    existingFiles,          \* useState<IExistingFileState[]>          (line 159)
    cumulativeFilesJSON,    \* useState<any[]>                         (line 168)
    adminConfig,            \* useState<IAdminConfig>                  (line 171)
    buttonLoadingState,     \* useState<ButtonLoadingStateEnum>        (line 135)
    loadingExistingFiles,   \* useState<boolean>                       (line 163)
    calls,                  \* the processFiles invocations in flight
    listCalls,              \* loadExistingFiles invocations of the effect, in flight
    blob,                   \* the files the backend holds for the record's folder
    contextChanges,         \* how many times the host has bound another record
    outputs,                \* the fields of FluentFilesImportControl (index.ts)
    deletes,                \* the handleDeleteExistingFile invocations in flight
    progressSimulationIntervals, \* React.useRef<{[fileName]: Timeout}>  (line 759)
    strayIntervals,         \* running intervals whose handle the ref no longer holds
    mounted,                \* the component has not been torn down
    localStorage,           \* localStorage: its item fileUploadControlAdminConfig,
                            \* and whether setItem succeeds
    mountEffectsPending,    \* the effects of the first render have not run yet
    alerts,                 \* the messages shown with alert() so far
    views,                  \* the handleViewExistingFile invocations in flight
    opened,                 \* the windows opened and the links clicked so far
    flow,                   \* the uploadMultipleFilesToCloudFlow invocation in flight
    busy                    \* the names whose deletingFiles, showDeleteConfirmation
                            \* or viewingFiles flag is true

vars == <<props, fileStates, existingFiles, cumulativeFilesJSON, adminConfig,
          buttonLoadingState, loadingExistingFiles, calls, listCalls, blob,
          contextChanges, outputs, deletes, progressSimulationIntervals,
          strayIntervals, mounted, localStorage, mountEffectsPending, alerts,
          views, opened, flow, busy>>

----------------------------------------------------------------------------
(* Bounds of the model *)

\* longest allow-list string drawn by InitTypes
MaxAllowLen == 4
\* most entries the local store holds in the model
MaxLocal == 2
\* most entries the store holds under SpecTypes
MaxTypeLocal == 1
\* most entries the store holds under SpecAdd
MaxAddLocal == 3
\* most processFiles invocations in flight at once
MaxCalls == 2
\* most entries the cumulative batch holds in the model
MaxCumulative == 2
\* most loadExistingFiles invocations of the effect in flight at once
MaxLists == 1
\* most changes of the bound record in one behaviour
MaxContextChanges == 1
\* the calls of notifyOutputChanged are counted up to this number
MaxNotified == 2

(* Program constants *)

\* 1024 * 1024, the MB -> bytes factor of validateFileType
BytesPerMB == 1048576

----------------------------------------------------------------------------
(* String helpers: the JavaScript string methods validateFileType uses *)

\* String.prototype.toLowerCase on one character of the model's alphabet
LowerChar(c) ==
    CASE c = "P" -> "p"
      [] c = "D" -> "d"
      [] c = "A" -> "a"
      [] OTHER -> c

ToLowerCase(s) == [i \in 1..Len(s) |-> LowerChar(s[i])]

RECURSIVE TrimStart(_)
TrimStart(s) ==
    IF s # <<>> /\ Head(s) = " " THEN TrimStart(Tail(s)) ELSE s

RECURSIVE TrimEnd(_)
TrimEnd(s) ==
    IF s # <<>> /\ s[Len(s)] = " " THEN TrimEnd(SubSeq(s, 1, Len(s) - 1)) ELSE s

\* String.prototype.trim
Trim(s) == TrimEnd(TrimStart(s))

\* String.prototype.split(/[;,]/): the pieces between separators, empties kept
RECURSIVE SplitFrom(_, _, _)
SplitFrom(s, i, cur) ==
    IF i > Len(s) THEN <<cur>>
    ELSE IF s[i] \in {";", ","} THEN <<cur>> \o SplitFrom(s, i + 1, <<>>)
    ELSE SplitFrom(s, i + 1, Append(cur, s[i]))

Split(s) == SplitFrom(s, 1, <<>>)

\* String.prototype.includes(c) for a one-character c
Includes(s, c) == \E i \in 1..Len(s) : s[i] = c

\* String.prototype.startsWith
StartsWith(s, p) == Len(p) <= Len(s) /\ SubSeq(s, 1, Len(p)) = p

\* String.prototype.lastIndexOf(c), 1-based; 0 when c does not occur (JS: -1)
LastIndexOf(s, c) ==
    IF Includes(s, c) THEN CHOOSE i \in 1..Len(s) :
                              s[i] = c /\ \A j \in (i + 1)..Len(s) : s[j] # c
    ELSE 0

\* fileName.substring(fileName.lastIndexOf('.')): substring(-1) is the whole string
SubstringFromLastDot(s) ==
    IF LastIndexOf(s, ".") = 0 THEN s ELSE SubSeq(s, LastIndexOf(s, "."), Len(s))

\* String.prototype.replace('*', ''): only the first occurrence is removed
ReplaceFirstStar(s) ==
    IF Includes(s, "*")
    THEN LET i == CHOOSE k \in 1..Len(s) :
                      s[k] = "*" /\ \A j \in 1..(k - 1) : s[j] # "*"
         IN SubSeq(s, 1, i - 1) \o SubSeq(s, i + 1, Len(s))
    ELSE s

\* reduce((sum, f) => sum + f.size, 0) over a sequence of files
RECURSIVE SumSizes(_)
SumSizes(files) ==
    IF files = <<>> THEN 0 ELSE Head(files).size + SumSizes(Tail(files))

\* (bytes / (1024 * 1024)).toFixed(2), as a number of hundredths of a MB
ToFixed2MB(bytes) ==
    (bytes \div BytesPerMB) * 100
        + ((bytes % BytesPerMB) * 100 + BytesPerMB \div 2) \div BytesPerMB

----------------------------------------------------------------------------
(* Validation Engine *)

NoError == [kind |-> "none", fileSizeMB |-> 0, limitMB |-> 0, currentSizeMB |-> 0]

\* the allow-list reduced to its patterns (lines 387-390)
AllowedTypes(allowedFileTypes) ==
    SelectSeq([i \in 1..Len(Split(allowedFileTypes)) |->
                   ToLowerCase(Trim(Split(allowedFileTypes)[i]))],
              LAMBDA t : t # <<>> /\ t # <<"*">>)

\* MatchesPattern without the leading-dot normalisation of an extension pattern
MatchesPattern_RawExtension(file, allowedType) ==
    LET fileName == ToLowerCase(file.name)
        fileType == ToLowerCase(file.type)
        fileExtension == SubstringFromLastDot(fileName)
    IN IF Includes(allowedType, "/")
       THEN fileType = allowedType \/ StartsWith(fileType, ReplaceFirstStar(allowedType))
       ELSE fileExtension = allowedType

\* one pattern against one file (the callback of allowedTypes.some)
MatchesPattern(file, allowedType) ==
    LET fileName == ToLowerCase(file.name)
        fileType == ToLowerCase(file.type)
        fileExtension == SubstringFromLastDot(fileName)
    IN IF Includes(allowedType, "/")
       THEN fileType = allowedType \/ StartsWith(fileType, ReplaceFirstStar(allowedType))
       ELSE LET normalizedAllowedType ==
                    IF StartsWith(allowedType, <<".">>) THEN allowedType
                    ELSE <<".">> \o allowedType
            IN fileExtension = normalizedAllowedType

\* the type half of validateFileType: TRUE when the file passes
IsValidType(file, allowedFileTypes) ==
    IF allowedFileTypes = <<>> \/ Trim(allowedFileTypes) = <<>>
          \/ Trim(allowedFileTypes) = <<"*">>
    THEN TRUE
    ELSE LET allowedTypes == AllowedTypes(allowedFileTypes)
         IN Len(allowedTypes) > 0 =>
               \E i \in 1..Len(allowedTypes) : MatchesPattern(file, allowedTypes[i])

\* fileStates.filter(fs => fs.isValid && fs.status !== 'failed').map(fs => fs.file)
ExistingPendingFiles(states) ==
    LET kept == SelectSeq(states, LAMBDA fs : fs.isValid /\ fs.status # "failed")
    IN [i \in 1..Len(kept) |-> kept[i].file]

\* fileStates.filter(fs => fs.status === 'pending' && fs.isValid).map(fs => fs.file)
FilesOfPending(states) ==
    LET kept == SelectSeq(states, LAMBDA fs : fs.status = "pending" /\ fs.isValid)
    IN [i \in 1..Len(kept) |-> kept[i].file]

\* validateFileType forgetting the files accepted earlier in the same call
validateFileType_IgnoringBatch(file, batchFiles, states, config) ==
    IF ~IsValidType(file, config.allowedFileTypes)
    THEN [isValid |-> FALSE,
          error |-> [kind |-> "type", fileSizeMB |-> 0, limitMB |-> 0,
                     currentSizeMB |-> 0]]
    ELSE IF config.maxTotalFileSizeMB > 0
    THEN LET maxSizeBytes == config.maxTotalFileSizeMB * BytesPerMB
             totalExistingSize == SumSizes(ExistingPendingFiles(states))
             totalNewSize == totalExistingSize + file.size
         IN IF totalNewSize > maxSizeBytes
            THEN [isValid |-> FALSE,
                  error |-> [kind |-> "size",
                             fileSizeMB |-> ToFixed2MB(file.size),
                             limitMB |-> config.maxTotalFileSizeMB,
                             currentSizeMB |-> ToFixed2MB(totalExistingSize)]]
            ELSE [isValid |-> TRUE, error |-> NoError]
    ELSE [isValid |-> TRUE, error |-> NoError]

\* validateFileType(file, existingFiles): the parameter existingFiles is the
\* batch accepted so far; it hides the component's existingFiles state
validateFileType(file, batchFiles, states, config) ==
    IF ~IsValidType(file, config.allowedFileTypes)
    THEN [isValid |-> FALSE,
          error |-> [kind |-> "type", fileSizeMB |-> 0, limitMB |-> 0,
                     currentSizeMB |-> 0]]
    ELSE IF config.maxTotalFileSizeMB > 0
    THEN LET maxSizeBytes == config.maxTotalFileSizeMB * BytesPerMB
             allExistingFiles == ExistingPendingFiles(states) \o batchFiles
             totalExistingSize == SumSizes(allExistingFiles)
             totalNewSize == totalExistingSize + file.size
         IN IF totalNewSize > maxSizeBytes
            THEN [isValid |-> FALSE,
                  error |-> [kind |-> "size",
                             fileSizeMB |-> ToFixed2MB(file.size),
                             limitMB |-> config.maxTotalFileSizeMB,
                             currentSizeMB |-> ToFixed2MB(totalExistingSize)]]
            ELSE [isValid |-> TRUE, error |-> NoError]
    ELSE [isValid |-> TRUE, error |-> NoError]

\* the loop of addFilesToState: the entries built for `files`, in order
RECURSIVE NewFileStates(_, _, _, _)
NewFileStates(files, acc, states, config) ==
    IF files = <<>> THEN acc
    ELSE LET file == Head(files)
             valid == SelectSeq(acc, LAMBDA fs : fs.isValid)
             filesInCurrentBatch == [i \in 1..Len(valid) |-> valid[i].file]
             validation == validateFileType(file, filesInCurrentBatch, states, config)
             entry == [file |-> file,
                       progress |-> 0,
                       status |-> IF validation.isValid THEN "pending" ELSE "invalid",
                       isValid |-> validation.isValid,
                       error |-> validation.error,
                       url |-> <<>>]
         IN NewFileStates(Tail(files), Append(acc, entry), states, config)

----------------------------------------------------------------------------
(* Inputs of the type-check specification *)

Alphabet == {"p", "P", ".", "/", "*", ";", ",", " "}

RECURSIVE StringsUpTo(_)
StringsUpTo(n) ==
    IF n = 0 THEN {<<>>}
    ELSE LET shorter == StringsUpTo(n - 1)
         IN shorter \cup {Append(s, c) : s \in {t \in shorter : Len(t) = n - 1},
                                          c \in Alphabet}

AllowLists == StringsUpTo(MaxAllowLen)

TypeFileNames == { <<"p">>, <<"p", ".", "p">>, <<"p", ".", "P">>, <<"p", ".">>,
                   <<".", "p">>, <<"p", ".", "p", "p">> }
TypeFileTypes == { <<>>, <<"p", "/", "p">>, <<"p", "/", "p", "p">> }
TypeFiles == { [name |-> n, type |-> t, size |-> 1024] :
                   n \in TypeFileNames, t \in TypeFileTypes }

----------------------------------------------------------------------------
(* Inputs of the orchestrator specifications *)

FileA == [name |-> <<"a", ".", "p">>, type |-> <<"a", "/", "p">>, size |-> 6 * BytesPerMB]
FileB == [name |-> <<"b", ".", "p">>, type |-> <<"a", "/", "p">>, size |-> 8 * BytesPerMB]
FileC == [name |-> <<"c", ".", "p">>, type |-> <<"a", "/", "p">>, size |-> 3 * BytesPerMB]

Files == {FileA, FileC}
AddFiles == {FileA, FileB, FileC}

\* the sequences of 1..n elements of S
RECURSIVE SeqsUpTo(_, _)
SeqsUpTo(S, n) ==
    IF n = 0 THEN {<<>>}
    ELSE LET shorter == SeqsUpTo(S, n - 1)
         IN shorter \cup {Append(q, x) : q \in {t \in shorter : Len(t) = n - 1}, x \in S}

\* ".p;.d", an allow-list of two extensions
AllowPD == <<".", "p", ";", ".", "d">>

RecordUids == {<<>>, <<"r">>}

\* bound configurations: everything set, or exactly one of the six values of
\* isCloudFlowConfigured missing
UrlFields == {"cloudFlowUploadUrl", "cloudFlowListFilesUrl", "cloudFlowDeleteUrl",
              "cloudFlowDownloadUrl", "containerPath"}

BaseProps(multi, spinner) ==
    [recordUid |-> <<"r">>,
     cloudFlowUploadUrl |-> <<"u">>, cloudFlowListFilesUrl |-> <<"u">>,
     cloudFlowDeleteUrl |-> <<"u">>, cloudFlowDownloadUrl |-> <<"u">>,
     containerPath |-> <<"c">>,
     listFilesFolderName |-> <<"f">>,
     buttonAllowMultipleFiles |-> multi,
     buttonShowActionSpinner |-> spinner,
     maxTotalFileSizeMB |-> 10,
     buttonAllowedFileTypes |-> AllowPD]

\* the configurations a behaviour of Spec starts in: a bound record with
\* multiple-file selection on or off, one required value missing, and no bound
\* record with the action spinner off
PropsChoices ==
    {BaseProps(m, TRUE) : m \in BOOLEAN}
      \cup {[BaseProps(TRUE, TRUE) EXCEPT ![f] = <<>>] : f \in UrlFields}
      \cup {[BaseProps(FALSE, FALSE) EXCEPT !.recordUid = <<>>]}

----------------------------------------------------------------------------
(* Outputs: FluentFilesImportControl.handleFileUpload (index.ts) *)

\* a field an event does not carry (undefined), and an output never set
Absent == <<"undefined">>

\* the truthiness of a string-valued event field: neither undefined nor ''
Truthy(v) == v # Absent /\ v # <<>>

\* the truthiness of event.uploadStatus
TruthyStatus(uploadStatus) == uploadStatus # "absent" /\ uploadStatus # ""

\* JSON.stringify of a value: a string, never equal to the value it encodes
JSONstringify(v) == <<"json", v>>
\* JSON.parse of such a string
JSONparse(str) == str[2]

NoEvent == [filesJSON |-> Absent, existingFiles |-> Absent, uploadResults |-> Absent,
            uploadStatus |-> "absent"]

\* the switch of handleFileUpload with a default branch that reports Failed
StatusCode_DefaultFailed(uploadStatus) ==
    CASE uploadStatus = "None" -> 0
      [] uploadStatus = "InProgress" -> 1
      [] uploadStatus = "Completed" -> 2
      [] uploadStatus = "Failed" -> 3
      [] OTHER -> 3

\* the switch of handleFileUpload
StatusCode(uploadStatus) ==
    CASE uploadStatus = "None" -> 0
      [] uploadStatus = "InProgress" -> 1
      [] uploadStatus = "Completed" -> 2
      [] uploadStatus = "Failed" -> 3
      [] OTHER -> 0

\* handleFileUpload(event) applied to the outputs `out`
handleFileUpload(out, event) ==
    [filesAsJSON |-> IF Truthy(event.filesJSON) THEN event.filesJSON ELSE out.filesAsJSON,
     existingFiles |-> IF Truthy(event.existingFiles) THEN event.existingFiles
                       ELSE out.existingFiles,
     uploadResults |-> IF Truthy(event.uploadResults) THEN event.uploadResults
                       ELSE out.uploadResults,
     lastUploadStatus |-> IF TruthyStatus(event.uploadStatus)
                          THEN StatusCode(event.uploadStatus)
                          ELSE out.lastUploadStatus,
     notified |-> IF out.notified < MaxNotified THEN out.notified + 1 ELSE MaxNotified]

\* Number.prototype.toString: the decimal string of a status code
toString(n) == <<"string", n>>

\* value ?? "": the empty string for an output never set
OrEmpty(v) == IF v = Absent THEN <<>> ELSE v

\* getOutputs(): what the host reads
getOutputs(out) ==
    [FilesAsJSON |-> OrEmpty(out.filesAsJSON),
     ExistingFiles |-> OrEmpty(out.existingFiles),
     UploadResults |-> OrEmpty(out.uploadResults),
     LastUploadStatus |-> toString(out.lastUploadStatus)]

\* onEvent called for each event of a sequence, in order
RECURSIVE onEvents(_, _)
onEvents(out, events) ==
    IF events = <<>> THEN out
    ELSE onEvents(handleFileUpload(out, Head(events)), Tail(events))

----------------------------------------------------------------------------
(* Mode / Config Resolver *)

\* isCloudFlowConfigured without the test of containerPath
isCloudFlowConfigured_NoContainer(p) ==
    /\ p.recordUid # <<>> /\ Trim(p.recordUid) # <<>>
    /\ p.cloudFlowDownloadUrl # <<>>
    /\ p.cloudFlowUploadUrl # <<>>
    /\ p.cloudFlowListFilesUrl # <<>>
    /\ p.cloudFlowDeleteUrl # <<>>

\* isCloudFlowConfigured(), on the props of the render that made the closure
isCloudFlowConfigured(p) ==
    /\ p.recordUid # <<>> /\ Trim(p.recordUid) # <<>>
    /\ p.cloudFlowDownloadUrl # <<>>
    /\ p.cloudFlowUploadUrl # <<>>
    /\ p.cloudFlowListFilesUrl # <<>>
    /\ p.cloudFlowDeleteUrl # <<>>
    /\ p.containerPath # <<>>

\* getCombinedFolderPath joining its parts without the separator
getCombinedFolderPath_NoSeparator(p) ==
    IF ~Truthy(p.listFilesFolderName) \/ ~Truthy(p.recordUid)
    THEN IF Truthy(p.recordUid) THEN p.recordUid
         ELSE IF Truthy(p.listFilesFolderName) THEN p.listFilesFolderName
         ELSE <<>>
    ELSE p.listFilesFolderName \o p.recordUid

\* getCombinedFolderPath(), on the props of the render that made the closure
getCombinedFolderPath(p) ==
    IF ~Truthy(p.listFilesFolderName) \/ ~Truthy(p.recordUid)
    THEN IF Truthy(p.recordUid) THEN p.recordUid
         ELSE IF Truthy(p.listFilesFolderName) THEN p.listFilesFolderName
         ELSE <<>>
    ELSE p.listFilesFolderName \o <<"/">> \o p.recordUid

\* value || undefined
OrUndefined(v) == IF Truthy(v) THEN v ELSE Absent

\* the request payload of loadExistingFiles (lines 284-288)
ListRequest(p) ==
    [containerPath |-> p.containerPath, folderName |-> getCombinedFolderPath(p)]

\* the request payload of uploadToCloudFlow for one file (lines 820-828)
UploadRequest(p, file) ==
    [fileName |-> file.name, containerPath |-> p.containerPath,
     folderName |-> getCombinedFolderPath(p), fileSize |-> file.size]

\* the request payload of handleDeleteExistingFile (lines 558-563)
DeleteRequest(p, fileName) ==
    [fileName |-> fileName, containerPath |-> p.containerPath,
     folderName |-> OrUndefined(getCombinedFolderPath(p))]

\* the request payload of handleViewExistingFile (lines 649-654)
DownloadRequest(p, fileName) ==
    [storageAccountName |-> p.containerPath,
     filePath |-> IF Truthy(getCombinedFolderPath(p))
                  THEN getCombinedFolderPath(p) \o <<"/">> \o fileName
                  ELSE fileName,
     fileName |-> fileName]

\* !recordUid || recordUid.trim() === ''
NoRecordUid(p) == p.recordUid = <<>> \/ Trim(p.recordUid) = <<>>

----------------------------------------------------------------------------
(* Per-File State Store *)

\* updateFileState(fileName, updates) applied to the list `states`
updateFileState(states, fileName, updates) ==
    [i \in 1..Len(states) |->
        IF states[i].file.name = fileName
        THEN [f \in DOMAIN states[i] |->
                 IF f \in DOMAIN updates THEN updates[f] ELSE states[i][f]]
        ELSE states[i]]

\* updateFileState called for each file of a sequence with the same updates
RECURSIVE updateAll(_, _, _)
updateAll(states, files, updates) ==
    IF files = <<>> THEN states
    ELSE updateAll(updateFileState(states, Head(files).name, updates), Tail(files), updates)

\* addFilesToState(files)
addFilesToState(files) ==
    /\ fileStates' = fileStates \o NewFileStates(files, <<>>, fileStates, adminConfig)
    /\ UNCHANGED <<props, existingFiles, cumulativeFilesJSON, adminConfig,
                   buttonLoadingState, loadingExistingFiles, calls, listCalls, blob,
                   outputs, contextChanges, deletes, progressSimulationIntervals,
                   strayIntervals, mounted, localStorage, mountEffectsPending, alerts, views, opened, flow, busy>>

\* removeFile emptying the cumulative batch instead of dropping one name
removeFile_DropsAll(fileName) ==
    LET matches == SelectSeq(fileStates, LAMBDA fs : fs.file.name = fileName)
        refused == matches # <<>>
                     /\ Head(matches).status \in {"uploading", "completed", "failed"}
    IN IF refused
       THEN UNCHANGED vars
       ELSE /\ fileStates' = SelectSeq(fileStates, LAMBDA fs : fs.file.name # fileName)
            /\ IF NoRecordUid(props)
               THEN /\ cumulativeFilesJSON' = <<>>
                    /\ outputs' = handleFileUpload(outputs,
                          [NoEvent EXCEPT !.filesJSON = JSONstringify(<<>>)])
               ELSE UNCHANGED <<cumulativeFilesJSON, outputs>>
            /\ UNCHANGED <<props, existingFiles, adminConfig, buttonLoadingState,
                           loadingExistingFiles, calls, listCalls, blob, contextChanges,
                           deletes, progressSimulationIntervals, strayIntervals, mounted, localStorage, mountEffectsPending, alerts, views, opened, flow, busy>>

\* removeFile without the refusal for uploading, completed and failed entries
removeFile_NoRefusal(fileName) ==
    LET updatedCumulative ==
            SelectSeq(cumulativeFilesJSON, LAMBDA file : file.name # fileName)
    IN /\ fileStates' = SelectSeq(fileStates, LAMBDA fs : fs.file.name # fileName)
       /\ IF NoRecordUid(props)
          THEN /\ cumulativeFilesJSON' = updatedCumulative
               /\ outputs' = handleFileUpload(outputs,
                     [NoEvent EXCEPT !.filesJSON = JSONstringify(updatedCumulative)])
          ELSE UNCHANGED <<cumulativeFilesJSON, outputs>>
       /\ UNCHANGED <<props, existingFiles, adminConfig, buttonLoadingState,
                      loadingExistingFiles, calls, listCalls, blob, contextChanges,
                      deletes, progressSimulationIntervals, strayIntervals, mounted, localStorage, mountEffectsPending, alerts, views, opened, flow, busy>>

\* removeFile(fileName)
removeFile(fileName) ==
    LET matches == SelectSeq(fileStates, LAMBDA fs : fs.file.name = fileName)
        refused == matches # <<>>
                     /\ Head(matches).status \in {"uploading", "completed", "failed"}
        updatedCumulative ==
            SelectSeq(cumulativeFilesJSON, LAMBDA file : file.name # fileName)
    IN IF refused
       THEN UNCHANGED vars
       ELSE /\ fileStates' = SelectSeq(fileStates, LAMBDA fs : fs.file.name # fileName)
            /\ IF NoRecordUid(props)
               THEN /\ cumulativeFilesJSON' = updatedCumulative
                    /\ outputs' = handleFileUpload(outputs,
                          [NoEvent EXCEPT !.filesJSON = JSONstringify(updatedCumulative)])
               ELSE UNCHANGED <<cumulativeFilesJSON, outputs>>
            /\ UNCHANGED <<props, existingFiles, adminConfig, buttonLoadingState,
                           loadingExistingFiles, calls, listCalls, blob, contextChanges,
                           deletes, progressSimulationIntervals, strayIntervals, mounted, localStorage, mountEffectsPending, alerts, views, opened, flow, busy>>

\* a state setter called with `new`: React drops the update once the
\* component is unmounted
SetState(new, old) == IF mounted THEN new ELSE old

----------------------------------------------------------------------------
(* Progress simulation: the interval tasks of startProgressSimulation.  A    *)
(* task is [fileName, simulatedProgress, live]; the ref holds at most one    *)
(* handle per file name.  Stray tasks of one name and one simulatedProgress  *)
(* behave alike and are kept as one.                                         *)

\* progressSimulationIntervals.current after startProgressSimulation(fileName)
startProgressSimulation(intervals, fileName) ==
    {t \in intervals : t.fileName # fileName}
        \cup {[fileName |-> fileName, simulatedProgress |-> 0, live |-> TRUE]}

\* the running tasks startProgressSimulation(fileName) leaves without a handle:
\* the assignment overwrites the handle the ref held for that name
StraysAfterStart(intervals, strays, fileName) ==
    strays \cup {[fileName |-> t.fileName, simulatedProgress |-> t.simulatedProgress] :
                   t \in {u \in intervals : u.fileName = fileName /\ u.live}}

\* progressSimulationIntervals.current after stopProgressSimulation(fileName)
stopProgressSimulation(intervals, fileName) ==
    {t \in intervals : t.fileName # fileName}

\* stopProgressSimulation called for each file of a sequence
RECURSIVE stopAll(_, _)
stopAll(intervals, files) ==
    IF files = <<>> THEN intervals
    ELSE stopAll(stopProgressSimulation(intervals, Head(files).name), Tail(files))

----------------------------------------------------------------------------
(* Per-File State Store, continued *)

\* isUploadInProgress()
isUploadInProgress ==
    \E i \in 1..Len(fileStates) : fileStates[i].status = "uploading"

\* clearNewFiles keeping the entries that failed
clearNewFiles_KeepsFailed ==
    /\ fileStates' = SelectSeq(fileStates, LAMBDA fs : fs.status = "failed")
    /\ IF NoRecordUid(props)
       THEN /\ cumulativeFilesJSON' = <<>>
            /\ outputs' = handleFileUpload(outputs,
                              [NoEvent EXCEPT !.filesJSON = JSONstringify(<<>>)])
       ELSE UNCHANGED <<cumulativeFilesJSON, outputs>>
    /\ busy' = [busy EXCEPT !.showDeleteConfirmation = {}, !.deletingFiles = {}]
    /\ UNCHANGED <<props, existingFiles, adminConfig, buttonLoadingState,
                   loadingExistingFiles, calls, listCalls, blob, contextChanges,
                   deletes, progressSimulationIntervals, strayIntervals, mounted,
                   localStorage, mountEffectsPending, alerts, views, opened, flow>>

\* clearNewFiles()
clearNewFiles ==
    /\ fileStates' = <<>>
    /\ IF NoRecordUid(props)
       THEN /\ cumulativeFilesJSON' = <<>>
            /\ outputs' = handleFileUpload(outputs,
                              [NoEvent EXCEPT !.filesJSON = JSONstringify(<<>>)])
       ELSE UNCHANGED <<cumulativeFilesJSON, outputs>>
    /\ busy' = [busy EXCEPT !.showDeleteConfirmation = {}, !.deletingFiles = {}]
    /\ UNCHANGED <<props, existingFiles, adminConfig, buttonLoadingState,
                   loadingExistingFiles, calls, listCalls, blob, contextChanges,
                   deletes, progressSimulationIntervals, strayIntervals, mounted, localStorage, mountEffectsPending, alerts, views, opened, flow>>

----------------------------------------------------------------------------
(* User actions on the store *)

\* onFileChange / onDrop: the user offers a batch of files
OfferFiles ==
    \E files \in SeqsUpTo(Files, MaxLocal) \ {<<>>} :
        /\ mounted
        /\ Len(fileStates) + Len(files) <= MaxLocal
        /\ addFilesToState(files)

\* the remove button of an entry, shown while it is pending or invalid
ClickRemove ==
    \E i \in 1..Len(fileStates) :
        /\ mounted
        /\ fileStates[i].status \in {"pending", "invalid"}
        /\ removeFile(fileStates[i].file.name)

\* the Clear New Files button (lines 1456-1466)
ClickClear ==
    /\ mounted
    /\ ~loadingExistingFiles
    /\ Len(fileStates) > 0
    /\ ~(NoRecordUid(props) /\ Len(cumulativeFilesJSON) > 0
           /\ \A i \in 1..Len(fileStates) : fileStates[i].status = "completed")
    /\ ~isUploadInProgress
    /\ clearNewFiles

----------------------------------------------------------------------------
(* The state of a freshly mounted component *)

\* a slot of `calls` with no processFiles call in it
IdleCall == [pc |-> "idle", files |-> <<>>, idx |-> 0, results |-> <<>>,
             props |-> BaseProps(TRUE, FALSE), cumulative |-> <<>>]

\* the names a delete can be asked for in the model
DeleteNames == {f.name : f \in Files}

\* a slot of `deletes` with no handleDeleteExistingFile call in it
IdleDelete == [pc |-> "idle", props |-> BaseProps(TRUE, FALSE), existingFiles |-> {}]

\* the fields of a freshly constructed FluentFilesImportControl; notified
\* counts the calls of notifyOutputChanged, up to MaxNotified
NoOutputs == [filesAsJSON |-> Absent, existingFiles |-> Absent,
              uploadResults |-> Absent, lastUploadStatus |-> 0, notified |-> 0]

\* the names a view can be asked for in the model
ViewNames == {f.name : f \in Files}

\* no deletingFiles, showDeleteConfirmation or viewingFiles flag is true
NotBusy == [deletingFiles |-> {}, showDeleteConfirmation |-> {}, viewingFiles |-> {}]

\* the finally block of handleDeleteExistingFile clearing the deleting flag only
DeleteFinally_DeletingOnly(b, fileName) ==
    [b EXCEPT !.deletingFiles = @ \ {fileName}]

\* the finally block of handleDeleteExistingFile (lines 600-603)
DeleteFinally(b, fileName) ==
    [b EXCEPT !.deletingFiles = @ \ {fileName},
              !.showDeleteConfirmation = @ \ {fileName}]

\* showDeleteConfirmationButtons(fileName), then the confirm button:
\* handleDeleteExistingFile sets the deleting flag (lines 550, 608)
DeleteStarted(b, fileName) ==
    [b EXCEPT !.deletingFiles = @ \cup {fileName},
              !.showDeleteConfirmation = @ \cup {fileName}]

\* the finally block of handleViewExistingFile (lines 717-720)
ViewFinally(b, fileName) == [b EXCEPT !.viewingFiles = @ \ {fileName}]

\* no uploadMultipleFilesToCloudFlow invocation is in flight
IdleFlow == [pc |-> "idle", files |-> <<>>, idx |-> 1, results |-> <<>>, timers |-> {}]

\* a slot of `views` with no handleViewExistingFile call in it
IdleView == [pc |-> "idle", props |-> BaseProps(TRUE, FALSE)]

\* the state of a freshly mounted component apart from policy and props: the
\* effect of lines 357-376 has run with no record bound
InitRest ==
    /\ fileStates = <<>>
    /\ existingFiles = {}
    /\ cumulativeFilesJSON = <<>>
    /\ buttonLoadingState = "initial"
    /\ loadingExistingFiles = FALSE
    /\ calls = [c \in 1..MaxCalls |-> IdleCall]
    /\ listCalls = 0
    /\ blob = {}
    /\ contextChanges = 0
    /\ outputs = onEvents(NoOutputs,
          <<[NoEvent EXCEPT !.existingFiles = JSONstringify({})],
            [NoEvent EXCEPT !.filesJSON = JSONstringify(<<>>)]>>)
    /\ deletes = [n \in DeleteNames |-> IdleDelete]
    /\ progressSimulationIntervals = {}
    /\ strayIntervals = {}
    /\ mounted = TRUE
    /\ localStorage = [item |-> JSONstringify(adminConfig), writable |-> TRUE]
    /\ mountEffectsPending = FALSE
    /\ alerts = {}
    /\ views = [n \in ViewNames |-> IdleView]
    /\ opened = {}
    /\ flow = IdleFlow
    /\ busy = NotBusy

----------------------------------------------------------------------------
(* The type-check specification: every short allow-list, one offered file *)

InitTypes ==
    /\ props = [BaseProps(TRUE, FALSE) EXCEPT !.recordUid = <<>>]
    /\ adminConfig \in [maxTotalFileSizeMB : {10}, allowedFileTypes : AllowLists]
    /\ InitRest

OfferTypeFile ==
    \E f \in TypeFiles :
        /\ mounted
        /\ Len(fileStates) + 1 <= MaxTypeLocal
        /\ addFilesToState(<<f>>)

NextTypes == OfferTypeFile \/ ClickClear

SpecTypes == InitTypes /\ [][NextTypes]_vars

----------------------------------------------------------------------------
(* The acceptance specification: batches of files of known sizes *)

InitAdd ==
    /\ props = [BaseProps(TRUE, FALSE) EXCEPT !.recordUid = <<>>]
    /\ adminConfig \in [maxTotalFileSizeMB : {0, 10}, allowedFileTypes : {AllowPD, <<"*">>}]
    /\ InitRest

OfferAddFiles ==
    \E files \in SeqsUpTo(AddFiles, MaxAddLocal) \ {<<>>} :
        /\ mounted
        /\ Len(fileStates) + Len(files) <= MaxAddLocal
        /\ addFilesToState(files)

NextAdd == OfferAddFiles \/ ClickRemove \/ ClickClear

SpecAdd == InitAdd /\ [][NextAdd]_vars

----------------------------------------------------------------------------
(* Reconciliation: loadExistingFiles *)

\* the files array of a successful list response, mapped to IExistingFileState
ListedFiles == blob

\* the synchronous part of loadExistingFiles() under props p, as the triple
\* <<existingFiles, loadingExistingFiles, events>> it leaves; the request is in
\* flight afterwards iff p is configured
LoadExistingStart(p, existing, loading) ==
    IF ~isCloudFlowConfigured(p)
    THEN <<{}, loading,
           <<[NoEvent EXCEPT !.existingFiles = JSONstringify({})]>> >>
    ELSE <<existing, TRUE, <<>> >>

\* the part of loadExistingFiles() after the response: ok is a response with
\* success or a files array, anything else throws and is caught
LoadExistingFinish(ok, existing) ==
    IF ok
    THEN <<ListedFiles, <<[NoEvent EXCEPT !.existingFiles = JSONstringify(ListedFiles)]>> >>
    ELSE <<existing, <<>> >>

\* the response to a list request the context effect started
EffectListResponse ==
    \E ok \in BOOLEAN :
        /\ listCalls > 0
        /\ LET done == LoadExistingFinish(ok, existingFiles)
           IN /\ existingFiles' = SetState(done[1], existingFiles)
              /\ outputs' = onEvents(outputs, done[2])
        /\ loadingExistingFiles' = SetState(FALSE, loadingExistingFiles)
        /\ listCalls' = listCalls - 1
        /\ UNCHANGED <<props, fileStates, cumulativeFilesJSON, adminConfig,
                       buttonLoadingState, calls, blob, contextChanges, deletes,
                       progressSimulationIntervals, strayIntervals, mounted, localStorage, mountEffectsPending, alerts, views, opened, flow, busy>>

\* the host changes a dependency of the effect of lines 357-376, the new
\* props being p: the effect runs
ContextChangeTo(p) ==
        LET started == LoadExistingStart(p, existingFiles, loadingExistingFiles)
        IN /\ mounted
           /\ contextChanges < MaxContextChanges
           /\ contextChanges' = contextChanges + 1
           /\ isCloudFlowConfigured(p) => listCalls < MaxLists
           /\ props' = p
           /\ existingFiles' = started[1]
           /\ loadingExistingFiles' = started[2]
           /\ listCalls' = IF isCloudFlowConfigured(p) THEN listCalls + 1 ELSE listCalls
           /\ fileStates' = <<>>
           /\ cumulativeFilesJSON' = <<>>
           /\ busy' = NotBusy
           /\ outputs' = onEvents(outputs,
                 started[3] \o <<[NoEvent EXCEPT !.filesJSON = JSONstringify(<<>>)]>>)
           /\ UNCHANGED <<adminConfig, buttonLoadingState, calls, blob, deletes,
                          progressSimulationIntervals, strayIntervals, mounted, localStorage, mountEffectsPending, alerts, views, opened, flow>>

\* the host binds another record
ContextChange ==
    \E uid \in RecordUids \ {props.recordUid} :
        ContextChangeTo([props EXCEPT !.recordUid = uid])

\* the values the host binds to ListFilesFolderName: null, the empty string,
\* a name
FolderNames == {Absent, <<>>, <<"f">>}

\* the host binds another folder name
FolderChange ==
    \E name \in FolderNames \ {props.listFilesFolderName} :
        ContextChangeTo([props EXCEPT !.listFilesFolderName = name])

----------------------------------------------------------------------------
(* Transfer Orchestrator: processFiles and uploadToCloudFlow *)

\* the descriptor processFilesAsJSON builds for a file
JSONFile(file) == [name |-> file.name, size |-> file.size]

\* JSON.parse(await processFilesAsJSON(files))
CurrentBatchFiles(files) ==
    JSONparse(JSONstringify([i \in 1..Len(files) |-> JSONFile(files[i])]))

\* the IUploadResult of one file
UploadResult(file, outcome) ==
    [fileName |-> file.name,
     url |-> IF outcome = "success" THEN <<"u">> \o file.name ELSE <<>>,
     success |-> outcome = "success",
     error |-> IF outcome = "success" THEN NoError
               ELSE [NoError EXCEPT !.kind = outcome]]

\* results.forEach(result => updateFileState(...)) of the multiple-file branch
RECURSIVE ApplyResults(_, _)
ApplyResults(states, results) ==
    IF results = <<>> THEN states
    ELSE LET r == Head(results)
         IN ApplyResults(
                updateFileState(states, r.fileName,
                    [status |-> IF r.success THEN "completed" ELSE "failed",
                     url |-> IF r.success THEN r.url ELSE <<>>,
                     error |-> r.error,
                     progress |-> IF r.success THEN 100 ELSE 0]),
                Tail(results))

\* the single-file branch putting a failed file back to pending
ApplySingleResult_FailedToPending(states, r) ==
    IF r.success
    THEN updateFileState(states, r.fileName,
             [status |-> "completed", url |-> r.url, progress |-> 100])
    ELSE updateFileState(states, r.fileName,
             [status |-> "pending", error |-> r.error, progress |-> 0])

\* the updateFileState of the single-file branch for its one result
ApplySingleResult(states, r) ==
    IF r.success
    THEN updateFileState(states, r.fileName,
             [status |-> "completed", url |-> r.url, progress |-> 100])
    ELSE updateFileState(states, r.fileName,
             [status |-> "failed", error |-> r.error, progress |-> 0])

AnySuccess(results) == \E i \in 1..Len(results) : results[i].success
HasFailures(results) == \E i \in 1..Len(results) : ~results[i].success

SuccessfulUploads(results) ==
    {results[i].fileName : i \in {k \in 1..Len(results) : results[k].success}}

\* the event that ends a remote processFiles call (lines 1038-1047)
RemoteFinalEvent(results) ==
    [NoEvent EXCEPT
        !.uploadResults = JSONstringify(results),
        !.uploadStatus = IF HasFailures(results) THEN "Failed" ELSE "Completed",
        !.filesJSON = JSONstringify([i \in 1..Len(results) |->
                          [name |-> results[i].fileName, url |-> results[i].url,
                           success |-> results[i].success, error |-> results[i].error]])]

\* setButtonLoadingState(Loaded) under the closure's buttonShowActionSpinner
LoadedIfSpinner(p, state) == IF p.buttonShowActionSpinner THEN "loaded" ELSE state

\* the updater replacing the cumulative batch by the current batch
AppendBatch_Replacing(prev, currentBatchFiles) == currentBatchFiles

\* the updater prev => [...prev, ...currentBatchFiles] (line 1061)
AppendBatch(prev, currentBatchFiles) == prev \o currentBatchFiles

\* handleUploadAll validating the pending entries again under the current policy
PendingValidFiles_Revalidated ==
    FilesOfPending(SelectSeq(fileStates,
        LAMBDA fs : validateFileType(fs.file, <<>>, <<>>, adminConfig).isValid))

\* the files a call of handleUploadAll passes to processFiles
PendingValidFiles ==
    FilesOfPending(fileStates)

\* the files the in-flight local-mode calls will append to the cumulative batch
RECURSIVE InFlightJSON(_)
InFlightJSON(c) ==
    IF c = 0 THEN 0
    ELSE (IF calls[c].pc = "read" THEN Len(calls[c].files) ELSE 0) + InFlightJSON(c - 1)

\* the Upload All button: handleUploadAll and processFiles up to the first await
ClickUploadAll ==
    \E c \in 1..MaxCalls :
        /\ mounted
        /\ calls[c].pc = "idle"
        /\ \A d \in 1..(c - 1) : calls[d].pc # "idle"
        /\ ~loadingExistingFiles
        /\ buttonLoadingState # "loading"
        /\ Len(PendingValidFiles) > 0
        /\ Len(cumulativeFilesJSON) + InFlightJSON(MaxCalls) + Len(PendingValidFiles) <= MaxCumulative
        /\ LET files == PendingValidFiles
               call == [pc |-> "idle", files |-> files, idx |-> 1, results |-> <<>>,
                        props |-> props, cumulative |-> cumulativeFilesJSON]
           IN /\ buttonLoadingState' =
                    IF props.buttonShowActionSpinner THEN "loading" ELSE buttonLoadingState
              /\ IF isCloudFlowConfigured(props)
                 THEN /\ outputs' = handleFileUpload(outputs,
                                        [NoEvent EXCEPT !.uploadStatus = "InProgress"])
                      /\ fileStates' = updateAll(fileStates, files,
                                           [status |-> "uploading", progress |-> 0])
                      /\ progressSimulationIntervals' =
                            startProgressSimulation(progressSimulationIntervals,
                                                    files[1].name)
                      /\ strayIntervals' =
                            StraysAfterStart(progressSimulationIntervals, strayIntervals,
                                             files[1].name)
                      /\ calls' = [calls EXCEPT ![c] = [call EXCEPT !.pc = "upload"]]
                 ELSE /\ calls' = [calls EXCEPT ![c] = [call EXCEPT !.pc = "read"]]
                      /\ UNCHANGED <<outputs, fileStates, progressSimulationIntervals,
                                     strayIntervals>>
        /\ UNCHANGED <<props, existingFiles, cumulativeFilesJSON, adminConfig,
                       loadingExistingFiles, listCalls, blob, contextChanges, deletes,
                       mounted, localStorage, mountEffectsPending, alerts, views, opened, flow, busy>>

\* the request succeeds, or fails; the failing paths (the read rejects, the
\* status is not ok, the body says success false) differ in the message only
UploadOutcomes == {"success", "httpError"}

\* the backend after it stored a file
Stored(file) == {b \in blob : b.name # file.name} \cup {JSONFile(file)}

\* every way one file of uploadToCloudFlow settles: success, a status that is
\* not ok, a body with success false, a read that rejects
AllUploadOutcomes == {"success", "httpError", "refused", "readError"}

\* one file of uploadToCloudFlow settles with `outcome` in call c; the loop
\* goes on, or the results are applied and processFiles continues to its next
\* await
UploadResponseOn(c, outcome) ==
        /\ calls[c].pc = "upload"
        /\ LET call == calls[c]
               multi == call.props.buttonAllowMultipleFiles
               file == call.files[call.idx]
               result == UploadResult(file, outcome)
               results == IF multi THEN Append(call.results, result) ELSE <<result>>
               marked == IF outcome = "success"
                         THEN updateFileState(fileStates, file.name, [progress |-> 100])
                         ELSE fileStates
               applied == IF multi THEN ApplyResults(marked, results)
                          ELSE ApplySingleResult(marked, result)
               stopped == stopProgressSimulation(progressSimulationIntervals, file.name)
           IN /\ blob' = IF outcome = "success" THEN Stored(file) ELSE blob
              /\ IF multi /\ call.idx < Len(call.files)
                 THEN /\ fileStates' = SetState(marked, fileStates)
                      /\ progressSimulationIntervals' =
                            startProgressSimulation(stopped, call.files[call.idx + 1].name)
                      /\ strayIntervals' =
                            StraysAfterStart(stopped, strayIntervals,
                                             call.files[call.idx + 1].name)
                      /\ calls' = [calls EXCEPT ![c].idx = call.idx + 1,
                                                ![c].results = results]
                      /\ UNCHANGED <<outputs, buttonLoadingState, loadingExistingFiles>>
                 ELSE IF AnySuccess(results)
                 THEN /\ fileStates' = SetState(applied, fileStates)
                      /\ loadingExistingFiles' = SetState(TRUE, loadingExistingFiles)
                      /\ progressSimulationIntervals' = stopped
                      /\ calls' = [calls EXCEPT ![c].pc = "list", ![c].results = results]
                      /\ UNCHANGED <<outputs, buttonLoadingState, strayIntervals>>
                 ELSE /\ fileStates' = SetState(applied, fileStates)
                      /\ buttonLoadingState' =
                            SetState(LoadedIfSpinner(call.props, buttonLoadingState),
                                     buttonLoadingState)
                      /\ progressSimulationIntervals' = stopped
                      /\ outputs' = handleFileUpload(outputs, RemoteFinalEvent(results))
                      /\ calls' = [calls EXCEPT ![c] = IdleCall]
                      /\ UNCHANGED <<loadingExistingFiles, strayIntervals>>
        /\ UNCHANGED <<props, existingFiles, cumulativeFilesJSON, adminConfig, listCalls,
                       contextChanges, deletes, mounted, localStorage, mountEffectsPending, alerts, views, opened, flow, busy>>

UploadResponse ==
    \E c \in 1..MaxCalls, outcome \in UploadOutcomes : UploadResponseOn(c, outcome)

UploadResponseAny ==
    \E c \in 1..MaxCalls, outcome \in AllUploadOutcomes : UploadResponseOn(c, outcome)

\* the list request awaited by processFiles returns; processFiles ends
ProcessListResponse ==
    \E c \in 1..MaxCalls, ok \in BOOLEAN :
        /\ calls[c].pc = "list"
        /\ LET call == calls[c]
               done == LoadExistingFinish(ok, existingFiles)
               successes == SuccessfulUploads(call.results)
           IN /\ existingFiles' = SetState(done[1], existingFiles)
              /\ loadingExistingFiles' = SetState(FALSE, loadingExistingFiles)
              /\ fileStates' = SetState(
                    SelectSeq(fileStates, LAMBDA fs : fs.file.name \notin successes),
                    fileStates)
              /\ outputs' = onEvents(outputs, done[2] \o <<RemoteFinalEvent(call.results)>>)
              /\ buttonLoadingState' =
                    SetState(LoadedIfSpinner(call.props, buttonLoadingState),
                             buttonLoadingState)
              /\ calls' = [calls EXCEPT ![c] = IdleCall]
        /\ UNCHANGED <<props, cumulativeFilesJSON, adminConfig, listCalls, blob,
                       contextChanges, deletes, progressSimulationIntervals,
                       strayIntervals, mounted, localStorage, mountEffectsPending, alerts, views, opened, flow, busy>>

\* the catch block marking only the first file of the batch as failed
MarkAllFailed_FirstOnly(states, files, error) ==
    updateFileState(states, Head(files).name,
                    [status |-> "failed", error |-> error, progress |-> 0])

\* the catch block of processFiles: files.forEach(file => updateFileState(
\* file.name, {status: 'failed', error, progress: 0})) (lines 1092-1098)
MarkAllFailed(states, files, error) ==
    updateAll(states, files, [status |-> "failed", error |-> error, progress |-> 0])

\* processFilesAsJSON returns (every file read) or rejects (a read failed):
\* the local branch of processFiles, or its catch block
ReadDoneOn(c, ok) ==
        /\ calls[c].pc = "read"
        /\ LET call == calls[c]
               files == call.files
               currentBatchFiles == CurrentBatchFiles(files)
               completed == updateAll(fileStates, files,
                                [status |-> "completed", progress |-> 100])
               names == {files[i].name : i \in 1..Len(files)}
           IN IF ok
              THEN /\ buttonLoadingState' =
                         SetState(LoadedIfSpinner(call.props, buttonLoadingState),
                                  buttonLoadingState)
                   /\ UNCHANGED progressSimulationIntervals
                   /\ IF NoRecordUid(call.props)
                      THEN /\ cumulativeFilesJSON' =
                                SetState(AppendBatch(cumulativeFilesJSON, currentBatchFiles),
                                         cumulativeFilesJSON)
                           /\ fileStates' = SetState(completed, fileStates)
                           /\ outputs' = handleFileUpload(outputs,
                                 [NoEvent EXCEPT
                                    !.filesJSON =
                                        JSONstringify(call.cumulative \o currentBatchFiles),
                                    !.uploadStatus = "Completed"])
                      ELSE /\ fileStates' = SetState(
                                SelectSeq(completed, LAMBDA fs : fs.file.name \notin names),
                                fileStates)
                           /\ outputs' = handleFileUpload(outputs,
                                 [NoEvent EXCEPT
                                    !.filesJSON = JSONstringify(currentBatchFiles),
                                    !.uploadStatus = "Completed"])
                           /\ UNCHANGED cumulativeFilesJSON
              ELSE /\ buttonLoadingState' = SetState("initial", buttonLoadingState)
                   /\ progressSimulationIntervals' =
                         stopAll(progressSimulationIntervals, files)
                   /\ fileStates' = SetState(
                          MarkAllFailed(fileStates, files,
                                        [NoError EXCEPT !.kind = "readError"]),
                          fileStates)
                   /\ outputs' = handleFileUpload(outputs,
                          [NoEvent EXCEPT
                             !.uploadStatus = "Failed",
                             !.uploadResults = JSONstringify(
                                 <<[fileName |-> <<"Unknown">>, url |-> <<>>,
                                    success |-> FALSE,
                                    error |-> [NoError EXCEPT !.kind = "readError"]]>>)])
                   /\ UNCHANGED cumulativeFilesJSON
        /\ calls' = [calls EXCEPT ![c] = IdleCall]
        /\ UNCHANGED <<props, existingFiles, adminConfig, loadingExistingFiles,
                       listCalls, blob, contextChanges, deletes, strayIntervals, mounted, localStorage, mountEffectsPending, alerts, views, opened, flow, busy>>

ReadDone == \E c \in 1..MaxCalls, ok \in BOOLEAN : ReadDoneOn(c, ok)

\* handleButtonClick: the file picker button, enabled unless loading
ClickButton ==
    /\ mounted
    /\ buttonLoadingState = "loaded"
    /\ buttonLoadingState' = "initial"
    /\ UNCHANGED <<props, fileStates, existingFiles, cumulativeFilesJSON, adminConfig,
                   loadingExistingFiles, calls, listCalls, blob, outputs, contextChanges,
                   deletes, progressSimulationIntervals, strayIntervals, mounted, localStorage, mountEffectsPending, alerts, views, opened, flow, busy>>

----------------------------------------------------------------------------
(* The orchestrator specification *)

\* the state after mounting: the effects of lines 202-208 and 357-376 have run
InitMounted ==
    /\ adminConfig = [maxTotalFileSizeMB |-> props.maxTotalFileSizeMB,
                      allowedFileTypes |-> props.buttonAllowedFileTypes]
    /\ fileStates = <<>>
    /\ cumulativeFilesJSON = <<>>
    /\ buttonLoadingState = "initial"
    /\ calls = [c \in 1..MaxCalls |-> IdleCall]
    /\ blob = {}
    /\ contextChanges = 0
    /\ deletes = [n \in DeleteNames |-> IdleDelete]
    /\ progressSimulationIntervals = {}
    /\ strayIntervals = {}
    /\ mounted = TRUE
    /\ localStorage = [item |-> JSONstringify(adminConfig), writable |-> TRUE]
    /\ mountEffectsPending = FALSE
    /\ alerts = {}
    /\ views = [n \in ViewNames |-> IdleView]
    /\ opened = {}
    /\ flow = IdleFlow
    /\ busy = NotBusy
    /\ LET started == LoadExistingStart(props, {}, FALSE)
       IN /\ existingFiles = started[1]
          /\ loadingExistingFiles = started[2]
          /\ listCalls = IF isCloudFlowConfigured(props) THEN 1 ELSE 0
          /\ outputs = onEvents(NoOutputs,
                started[3] \o <<[NoEvent EXCEPT !.filesJSON = JSONstringify(<<>>)]>>)

Init == props \in PropsChoices /\ InitMounted

Next ==
    \/ OfferFiles
    \/ ClickRemove
    \/ ClickClear
    \/ ClickButton
    \/ ClickUploadAll
    \/ UploadResponse
    \/ ProcessListResponse
    \/ ReadDone
    \/ EffectListResponse
    \/ ContextChange

Spec == Init /\ [][Next]_vars

----------------------------------------------------------------------------
(* Reconciliation in detail: the responses of the list endpoint *)

\* the files arrays a list response can carry: the folder is shared, so the
\* array need not be what this component stored
ListFileArrays == SUBSET {JSONFile(f) : f \in Files}

\* result.files: absent (or another falsy value), an array, or another truthy
\* value
ListFilesValues ==
    {[kind |-> "absent", items |-> {}], [kind |-> "other", items |-> {}]}
        \cup {[kind |-> "array", items |-> a] : a \in ListFileArrays}

\* a list response: response.ok, whether response.json() resolves,
\* result.success and result.files
ListResponses ==
    [ok : BOOLEAN, parses : {TRUE}, success : BOOLEAN, files : ListFilesValues]
        \cup [ok : BOOLEAN, parses : {FALSE}, success : {FALSE},
              files : {[kind |-> "absent", items |-> {}]}]

\* result.files && Array.isArray(result.files)
hasValidFilesArray(r) == r.files.kind = "array"

\* loadExistingFiles rejecting every response whose status is not ok
ListThrows_StatusFirst(r) ==
    \/ ~r.parses
    \/ ~r.ok
    \/ ~r.success /\ ~hasValidFilesArray(r)
    \/ r.files.kind = "other"

\* the try block of loadExistingFiles throws on response r: the body does not
\* parse, the guard of line 317 throws, or files.map is not a function
ListThrows(r) ==
    \/ ~r.parses
    \/ (~r.ok \/ ~r.success) /\ ~hasValidFilesArray(r)
    \/ r.files.kind = "other"

\* (result.files || []).map(...)
ExistingFileStates(r) == r.files.items

\* loadExistingFiles emptying the existing set when the response is an error
LoadExistingFinishOn_ClearsOnError(r, existing) ==
    IF ListThrows(r)
    THEN <<{}, <<>> >>
    ELSE <<ExistingFileStates(r),
           <<[NoEvent EXCEPT !.existingFiles = JSONstringify(ExistingFileStates(r))]>> >>

\* the part of loadExistingFiles() after response r, as the pair
\* <<existingFiles, events>> it leaves
LoadExistingFinishOn(r, existing) ==
    IF ListThrows(r)
    THEN <<existing, <<>> >>
    ELSE <<ExistingFileStates(r),
           <<[NoEvent EXCEPT !.existingFiles = JSONstringify(ExistingFileStates(r))]>> >>

\* response r to a list request the context effect started
EffectListResponseOn(r) ==
    /\ listCalls > 0
    /\ LET done == LoadExistingFinishOn(r, existingFiles)
       IN /\ existingFiles' = SetState(done[1], existingFiles)
          /\ outputs' = onEvents(outputs, done[2])
    /\ loadingExistingFiles' = SetState(FALSE, loadingExistingFiles)
    /\ listCalls' = listCalls - 1
    /\ UNCHANGED <<props, fileStates, cumulativeFilesJSON, adminConfig,
                   buttonLoadingState, calls, blob, contextChanges, deletes,
                   progressSimulationIntervals, strayIntervals, mounted, localStorage, mountEffectsPending, alerts, views, opened, flow, busy>>

EffectListResponseAny == \E r \in ListResponses : EffectListResponseOn(r)

----------------------------------------------------------------------------
(* Deleting an existing file: handleDeleteExistingFile *)

\* a delete response: response.ok, whether response.json() resolves and
\* result.success; the body of a response that is not ok is not read
DeleteResponses ==
    [ok : BOOLEAN, parses : {TRUE}, success : BOOLEAN]
        \cup [ok : BOOLEAN, parses : {FALSE}, success : {FALSE}]

\* the handler taking every parsed body with success true for a success
DeleteSucceeds_IgnoresStatus(r) == r.parses /\ r.success

\* the handler reaches the branch of result.success (lines 574-580)
DeleteSucceeds(r) == r.ok /\ r.parses /\ r.success

\* the message of the error the handler throws on response r
DeleteError(r) ==
    IF ~r.ok THEN "httpError" ELSE IF ~r.parses THEN "parseError" ELSE "refused"

\* alert(`Failed to delete file: ${message}`)
DeleteAlert(message) == [handler |-> "delete", message |-> message]

\* the Yes button of the delete confirmation of file n: handleDeleteExistingFile
\* up to its first await, or to its end when the configuration is missing
ConfirmDeleteOn(n) ==
        /\ mounted
        /\ deletes[n].pc = "idle"
        /\ \E e \in existingFiles : e.name = n
        /\ IF isCloudFlowConfigured(props)
           THEN /\ deletes' = [deletes EXCEPT ![n] =
                                  [pc |-> "delete", props |-> props,
                                   existingFiles |-> existingFiles]]
                /\ busy' = DeleteStarted(busy, n)
                /\ UNCHANGED alerts
           ELSE /\ alerts' = alerts \cup {DeleteAlert("config")}
                /\ busy' = DeleteFinally(DeleteStarted(busy, n), n)
                /\ UNCHANGED deletes
        /\ UNCHANGED <<props, fileStates, existingFiles, cumulativeFilesJSON,
                       adminConfig, buttonLoadingState, loadingExistingFiles, calls,
                       listCalls, blob, contextChanges, outputs,
                       progressSimulationIntervals, strayIntervals, mounted,
                       localStorage, mountEffectsPending, views, opened, flow>>

ConfirmDelete == \E n \in DeleteNames : ConfirmDeleteOn(n)

\* the delete request of file n returns response r: on success the entry is
\* filtered out of the existing set and loadExistingFiles() is called,
\* otherwise the user is alerted
DeleteResponseOn(n, r) ==
        /\ deletes[n].pc = "delete"
        /\ IF DeleteSucceeds(r)
           THEN LET filtered == {e \in existingFiles : e.name # n}
                    started == LoadExistingStart(deletes[n].props, filtered,
                                                 loadingExistingFiles)
                IN /\ blob' = {b \in blob : b.name # n}
                   /\ existingFiles' = SetState(started[1], existingFiles)
                   /\ loadingExistingFiles' = SetState(started[2], loadingExistingFiles)
                   /\ outputs' = onEvents(outputs, started[3])
                   /\ deletes' = [deletes EXCEPT ![n].pc = "list"]
                   /\ UNCHANGED <<alerts, busy>>
           ELSE /\ deletes' = [deletes EXCEPT ![n] = IdleDelete]
                /\ alerts' = alerts \cup {DeleteAlert(DeleteError(r))}
                /\ busy' = SetState(DeleteFinally(busy, n), busy)
                /\ UNCHANGED <<blob, existingFiles, loadingExistingFiles, outputs>>
        /\ UNCHANGED <<props, fileStates, cumulativeFilesJSON, adminConfig,
                       buttonLoadingState, calls, listCalls, contextChanges,
                       progressSimulationIntervals, strayIntervals, mounted,
                       localStorage, mountEffectsPending, views, opened, flow>>

DeleteResponse ==
    \E n \in DeleteNames, r \in DeleteResponses : DeleteResponseOn(n, r)

\* the list request awaited by handleDeleteExistingFile returns response r; the
\* handler reports the existing set of its closure without the deleted name
DeleteListResponseOn(n, r) ==
        /\ deletes[n].pc = "list"
        /\ LET done == LoadExistingFinishOn(r, existingFiles)
               reported == {e \in deletes[n].existingFiles : e.name # n}
           IN /\ existingFiles' = SetState(done[1], existingFiles)
              /\ outputs' = onEvents(outputs,
                    done[2] \o <<[NoEvent EXCEPT
                                    !.existingFiles = JSONstringify(reported)]>>)
        /\ loadingExistingFiles' = SetState(FALSE, loadingExistingFiles)
        /\ deletes' = [deletes EXCEPT ![n] = IdleDelete]
        /\ busy' = SetState(DeleteFinally(busy, n), busy)
        /\ UNCHANGED <<props, fileStates, cumulativeFilesJSON, adminConfig,
                       buttonLoadingState, calls, listCalls, blob, contextChanges,
                       progressSimulationIntervals, strayIntervals, mounted, localStorage, mountEffectsPending, alerts, views, opened, flow>>

DeleteListResponse ==
    \E n \in DeleteNames, r \in ListResponses : DeleteListResponseOn(n, r)

----------------------------------------------------------------------------
(* The reconciliation specification: a bound record, list and delete calls *)

InitExisting ==
    /\ props = BaseProps(TRUE, TRUE)
    /\ Init

NextExisting ==
    \/ EffectListResponseAny
    \/ ConfirmDelete
    \/ DeleteResponse
    \/ DeleteListResponse
    \/ ContextChange

SpecExisting == InitExisting /\ [][NextExisting]_vars

----------------------------------------------------------------------------
(* Downloading an existing file: handleViewExistingFile *)

\* the fields of a download payload
PayloadFields == {"fileContent", "contentType", "fileName"}

\* a field of a payload is undefined, the empty string or a string with content
FieldValues == {"undefined", "empty", "value"}

\* the payloads a response can carry at one level
Payloads == [PayloadFields -> FieldValues]

\* result.body: undefined, or an object with a payload
BodyValues == {[kind |-> "undefined", payload |-> [f \in PayloadFields |-> "undefined"]]}
                 \cup {[kind |-> "object", payload |-> q] : q \in Payloads}

\* a download response: response.ok, whether response.json() resolves, the
\* fields at the top level and result.body
DownloadResponses ==
    [ok : BOOLEAN, parses : {TRUE}, top : Payloads, body : BodyValues]
        \cup [ok : BOOLEAN, parses : {FALSE},
              top : {[f \in PayloadFields |-> "undefined"]},
              body : {[kind |-> "undefined",
                       payload |-> [f \in PayloadFields |-> "undefined"]]}]

\* a.fileContent && a.contentType && a.fileName
AllTruthy(payload) == \A f \in PayloadFields : payload[f] = "value"

\* the level the handler takes the three fields from, "none" when it finds
\* them at neither level (lines 677-687)
PayloadLevel(r) ==
    IF AllTruthy(r.top) THEN "top"
    ELSE IF r.body.kind = "object" /\ AllTruthy(r.body.payload) THEN "body"
    ELSE "none"

\* the handler taking the fields of a response whatever its status
DownloadAccepted_IgnoresStatus(r) == r.parses /\ PayloadLevel(r) # "none"

\* the handler creates and clicks the link for response r
DownloadAccepted(r) == r.ok /\ r.parses /\ PayloadLevel(r) # "none"

\* the message of the error the handler throws on response r
DownloadError(r) ==
    IF ~r.ok THEN "httpError" ELSE IF ~r.parses THEN "parseError" ELSE "shape"

\* alert(...) of handleViewExistingFile
ViewAlert(message) == [handler |-> "view", message |-> message]

\* existingFile.url: undefined when the list response gave none
UrlOf(e) == IF "url" \in DOMAIN e THEN e.url ELSE <<>>

\* window.open(url, '_blank', 'noopener,noreferrer')
Window(url) == [kind |-> "window", url |-> url, fileName |-> <<>>, level |-> "none"]

\* the link with a data: URL the handler creates and clicks
Link(n, level) == [kind |-> "link", url |-> <<>>, fileName |-> n, level |-> level]

\* the Download button of existing file n: handleViewExistingFile up to its
\* await, or to its end when it sends no request
ViewExistingFileOn(n) ==
    /\ mounted
    /\ views[n].pc = "idle"
    /\ \E e \in existingFiles : e.name = n
    /\ IF props.cloudFlowDownloadUrl = <<>>
       THEN LET existingFile == CHOOSE e \in existingFiles : e.name = n
            IN IF UrlOf(existingFile) # <<>>
               THEN /\ opened' = opened \cup {Window(UrlOf(existingFile))}
                    /\ outputs' = handleFileUpload(outputs, NoEvent)
                    /\ UNCHANGED <<alerts, views, busy>>
               ELSE /\ alerts' = alerts \cup {ViewAlert("noUrl")}
                    /\ UNCHANGED <<opened, outputs, views, busy>>
       ELSE IF ~isCloudFlowConfigured(props)
       THEN /\ alerts' = alerts \cup {ViewAlert("config")}
            /\ UNCHANGED <<opened, outputs, views, busy>>
       ELSE /\ views' = [views EXCEPT ![n] = [pc |-> "download", props |-> props]]
            /\ busy' = [busy EXCEPT !.viewingFiles = @ \cup {n}]
            /\ UNCHANGED <<opened, outputs, alerts>>
    /\ UNCHANGED <<props, fileStates, existingFiles, cumulativeFilesJSON, adminConfig,
                   buttonLoadingState, loadingExistingFiles, calls, listCalls, blob,
                   contextChanges, deletes, progressSimulationIntervals,
                   strayIntervals, mounted, localStorage, mountEffectsPending, flow>>

ViewExistingFile == \E n \in ViewNames : ViewExistingFileOn(n)

\* the download request of file n returns response r
DownloadResponseOn(n, r) ==
    /\ views[n].pc = "download"
    /\ views' = [views EXCEPT ![n] = IdleView]
    /\ busy' = SetState(ViewFinally(busy, n), busy)
    /\ IF DownloadAccepted(r)
       THEN /\ opened' = opened \cup {Link(n, PayloadLevel(r))}
            /\ outputs' = handleFileUpload(outputs, NoEvent)
            /\ UNCHANGED alerts
       ELSE /\ alerts' = alerts \cup {ViewAlert(DownloadError(r))}
            /\ UNCHANGED <<opened, outputs>>
    /\ UNCHANGED <<props, fileStates, existingFiles, cumulativeFilesJSON, adminConfig,
                   buttonLoadingState, loadingExistingFiles, calls, listCalls, blob,
                   contextChanges, deletes, progressSimulationIntervals,
                   strayIntervals, mounted, localStorage, mountEffectsPending, flow>>

DownloadResponse ==
    \E n \in ViewNames, r \in DownloadResponses : DownloadResponseOn(n, r)

----------------------------------------------------------------------------
(* The delete specification: list and delete calls while the host changes   *)
(* the URLs that are no dependency of the effect of lines 357-376           *)

\* the URLs whose change re-runs no effect
UnwatchedUrls == {"cloudFlowDeleteUrl", "cloudFlowDownloadUrl"}

\* the host sets or clears one of these URLs: the component renders again
UrlChange ==
    \E f \in UnwatchedUrls :
        /\ mounted
        /\ props' = [props EXCEPT ![f] = IF props[f] = <<>> THEN <<"u">> ELSE <<>>]
        /\ UNCHANGED <<fileStates, existingFiles, cumulativeFilesJSON, adminConfig,
                       buttonLoadingState, loadingExistingFiles, calls, listCalls, blob,
                       contextChanges, outputs, deletes, progressSimulationIntervals,
                       strayIntervals, mounted, localStorage, mountEffectsPending,
                       alerts, views, opened, flow, busy>>

InitDelete ==
    /\ props = BaseProps(TRUE, TRUE)
    /\ Init

NextDelete ==
    \/ EffectListResponseAny
    \/ ConfirmDelete
    \/ DeleteResponse
    \/ DeleteListResponse
    \/ UrlChange

SpecDelete == InitDelete /\ [][NextDelete]_vars

----------------------------------------------------------------------------
(* Progress ticks and teardown *)

\* Math.random() * 15 of one tick, as whole percents below 15
TickIncrements == {7, 14}

\* the cap of the simulated progress (line 764)
ProgressCap == 95

\* Math.min(simulatedProgress + increment, 95)
NextSimulatedProgress(simulatedProgress, inc) ==
    IF simulatedProgress + inc < ProgressCap THEN simulatedProgress + inc ELSE ProgressCap

\* the callback of a running interval task fires: one held by the ref, or a
\* stray one
Tick ==
    \E inc \in TickIncrements :
        \/ \E t \in {u \in progressSimulationIntervals : u.live} :
              LET next == NextSimulatedProgress(t.simulatedProgress, inc)
              IN /\ progressSimulationIntervals' =
                       (progressSimulationIntervals \ {t})
                           \cup {[t EXCEPT !.simulatedProgress = next]}
                 /\ fileStates' = SetState(
                       updateFileState(fileStates, t.fileName, [progress |-> next]),
                       fileStates)
                 /\ UNCHANGED strayIntervals
        \/ \E t \in strayIntervals :
              LET next == NextSimulatedProgress(t.simulatedProgress, inc)
              IN /\ strayIntervals' =
                       (strayIntervals \ {t}) \cup {[t EXCEPT !.simulatedProgress = next]}
                 /\ fileStates' = SetState(
                       updateFileState(fileStates, t.fileName, [progress |-> next]),
                       fileStates)
                 /\ UNCHANGED progressSimulationIntervals
    /\ UNCHANGED <<props, existingFiles, cumulativeFilesJSON, adminConfig,
                   buttonLoadingState, loadingExistingFiles, calls, listCalls, blob,
                   contextChanges, outputs, deletes, mounted, localStorage, mountEffectsPending, alerts, views, opened, flow, busy>>

\* the host tears the component down: the cleanup of lines 777-783 clears the
\* intervals the ref holds
Unmount ==
    /\ mounted
    /\ mounted' = FALSE
    /\ progressSimulationIntervals' =
          {[t EXCEPT !.live = FALSE] : t \in progressSimulationIntervals}
    /\ UNCHANGED <<props, fileStates, existingFiles, cumulativeFilesJSON, adminConfig,
                   buttonLoadingState, loadingExistingFiles, calls, listCalls, blob,
                   contextChanges, outputs, deletes, strayIntervals, localStorage, mountEffectsPending, alerts, views, opened, flow, busy>>

----------------------------------------------------------------------------
(* The progress specification: remote uploads with ticks and a teardown *)

InitProgress ==
    /\ props = BaseProps(TRUE, TRUE)
    /\ Init

NextProgress ==
    \/ OfferFiles
    \/ ClickUploadAll
    \/ UploadResponse
    \/ ProcessListResponse
    \/ EffectListResponse
    \/ Tick
    \/ Unmount

SpecProgress == InitProgress /\ [][NextProgress]_vars

----------------------------------------------------------------------------
(* The outcome specification: remote uploads settling in every way *)

InitOutcomes ==
    /\ props \in {BaseProps(m, TRUE) : m \in BOOLEAN}
    /\ Init

NextOutcomes ==
    \/ OfferFiles
    \/ ClickRemove
    \/ ClickClear
    \/ ClickUploadAll
    \/ UploadResponseAny
    \/ ProcessListResponse
    \/ EffectListResponse

SpecOutcomes == InitOutcomes /\ [][NextOutcomes]_vars

----------------------------------------------------------------------------
(* Policy override: the adminConfig state, its copy in localStorage and the *)
(* admin panel                                                               *)

\* localStorage.getItem(...) when nothing is stored: null
NoItem == <<"null">>

\* a stored string JSON.parse rejects
BrokenItem == <<"text", "{">>

\* JSON.parse(saved) returns
Parses(item) == item[1] = "json"

\* { maxTotalFileSizeMB, allowedFileTypes } taken from the props
BoundConfig(p) ==
    [maxTotalFileSizeMB |-> p.maxTotalFileSizeMB,
     allowedFileTypes |-> p.buttonAllowedFileTypes]

\* parsed.maxTotalFileSizeMB && parsed.allowedFileTypes !== undefined
HasExpectedProperties(parsed) ==
    /\ "maxTotalFileSizeMB" \in DOMAIN parsed
    /\ parsed.maxTotalFileSizeMB # 0
    /\ "allowedFileTypes" \in DOMAIN parsed

\* the initializer returns the saved configuration (lines 174-180)
ValidSaved(item) ==
    /\ item # NoItem
    /\ item # <<>>
    /\ Parses(item)
    /\ HasExpectedProperties(JSONparse(item))

\* the initializer of the adminConfig state
AdminConfigInitializer(item, p) ==
    IF ValidSaved(item) THEN JSONparse(item) ELSE BoundConfig(p)

\* the persist effect missing its dependency: it never runs again
PersistEffect_Skips(storage, config) == storage

\* the effect of lines 194-200 after a render with `config`: setItem can
\* throw, and the effect then only warns
PersistEffect(storage, config) ==
    IF storage.writable
    THEN [storage EXCEPT !.item = JSONstringify(config)]
    ELSE storage

\* what the store can hold when the component mounts
PersistedItems ==
    {NoItem, BrokenItem,
     JSONstringify([maxTotalFileSizeMB |-> 5]),
     JSONstringify([allowedFileTypes |-> <<".", "d">>]),
     JSONstringify([maxTotalFileSizeMB |-> 0, allowedFileTypes |-> <<".", "d">>]),
     JSONstringify([maxTotalFileSizeMB |-> 5, allowedFileTypes |-> <<".", "d">>]),
     JSONstringify([maxTotalFileSizeMB |-> 10, allowedFileTypes |-> AllowPD])}

\* the effects of the first render, in order: persist, reset to the props,
\* load the existing files and reset the store; then the persist effect of
\* the render the reset caused
MountEffects ==
        LET first == PersistEffect(localStorage, adminConfig)
            reset == BoundConfig(props)
            started == LoadExistingStart(props, existingFiles, loadingExistingFiles)
        IN /\ mounted
           /\ mountEffectsPending
           /\ mountEffectsPending' = FALSE
           /\ adminConfig' = reset
           /\ localStorage' = PersistEffect(first, reset)
           /\ existingFiles' = started[1]
           /\ loadingExistingFiles' = started[2]
           /\ listCalls' = IF isCloudFlowConfigured(props) THEN listCalls + 1 ELSE listCalls
           /\ fileStates' = <<>>
           /\ cumulativeFilesJSON' = <<>>
           /\ busy' = NotBusy
           /\ outputs' = onEvents(outputs,
                 started[3] \o <<[NoEvent EXCEPT !.filesJSON = JSONstringify(<<>>)]>>)
           /\ UNCHANGED <<props, buttonLoadingState, calls, blob, contextChanges,
                          deletes, progressSimulationIntervals, strayIntervals,
                          mounted, alerts, views, opened, flow>>

\* setAdminConfig(config) and the persist effect of the render it causes
SetAdminConfig(config) ==
        /\ mounted
        /\ ~mountEffectsPending
        /\ adminConfig' = config
        /\ localStorage' = PersistEffect(localStorage, config)
        /\ UNCHANGED <<props, fileStates, existingFiles, cumulativeFilesJSON,
                       buttonLoadingState, loadingExistingFiles, calls, listCalls,
                       blob, contextChanges, outputs, deletes,
                       progressSimulationIntervals, strayIntervals, mounted,
                       mountEffectsPending, alerts, views, opened, flow, busy>>

\* the value of a decimal digit
DigitValue(c) ==
    CASE c = "0" -> 0 [] c = "1" -> 1 [] c = "2" -> 2 [] c = "5" -> 5 [] OTHER -> 0

\* parseInt of a string of digits, read from the left
RECURSIVE ParseDigits(_, _)
ParseDigits(text, acc) ==
    IF text = <<>> THEN acc
    ELSE ParseDigits(Tail(text), 10 * acc + DigitValue(Head(text)))

\* parseInt(value) || 1 for the empty string (NaN) and for strings of digits
ParseIntOrOne(text) ==
    IF text = <<>> \/ ParseDigits(text, 0) = 0 THEN 1 ELSE ParseDigits(text, 0)

\* what the admin types into the size field and into the types field
SizeInputs == {<<>>, <<"0">>, <<"5">>}
TypeInputs == {<<>>, <<".", "d">>}

\* onChange of the maximum size input (lines 1215-1221)
AdminEditSize ==
    \E text \in SizeInputs :
        SetAdminConfig([adminConfig EXCEPT !.maxTotalFileSizeMB = ParseIntOrOne(text)])

\* onChange of the allowed types input (lines 1243-1249)
AdminEditTypes ==
    \E text \in TypeInputs :
        SetAdminConfig([adminConfig EXCEPT !.allowedFileTypes = text])

\* the Reset to Original button (lines 1271-1277)
ResetToOriginal == SetAdminConfig(BoundConfig(props))

\* the values the host binds to MaxTotalFileSizeMB and AllowedFileTypes
BoundSizes == {10, 5}
BoundTypes == {AllowPD, <<".", "d">>}

\* the host changes a bound policy value: the effect of lines 203-208 resets
\* the override, and the persist effect follows
PolicyChange ==
    \E size \in BoundSizes, types \in BoundTypes :
        LET p == [props EXCEPT !.maxTotalFileSizeMB = size,
                               !.buttonAllowedFileTypes = types]
        IN /\ mounted
           /\ ~mountEffectsPending
           /\ p # props
           /\ props' = p
           /\ adminConfig' = BoundConfig(p)
           /\ localStorage' = PersistEffect(localStorage, BoundConfig(p))
           /\ UNCHANGED <<fileStates, existingFiles, cumulativeFilesJSON,
                          buttonLoadingState, loadingExistingFiles, calls, listCalls,
                          blob, contextChanges, outputs, deletes,
                          progressSimulationIntervals, strayIntervals, mounted,
                          mountEffectsPending, alerts, views, opened, flow, busy>>

----------------------------------------------------------------------------
(* The policy specification: the component from its first render on *)

\* the state after the first render, before its effects
InitAdmin ==
    /\ props \in {BaseProps(TRUE, TRUE),
                  [BaseProps(FALSE, FALSE) EXCEPT !.recordUid = <<>>]}
    /\ localStorage \in [item : PersistedItems, writable : BOOLEAN]
    /\ adminConfig = AdminConfigInitializer(localStorage.item, props)
    /\ mountEffectsPending = TRUE
    /\ fileStates = <<>>
    /\ existingFiles = {}
    /\ cumulativeFilesJSON = <<>>
    /\ buttonLoadingState = "initial"
    /\ loadingExistingFiles = FALSE
    /\ calls = [c \in 1..MaxCalls |-> IdleCall]
    /\ listCalls = 0
    /\ blob = {}
    /\ contextChanges = 0
    /\ outputs = NoOutputs
    /\ deletes = [n \in DeleteNames |-> IdleDelete]
    /\ progressSimulationIntervals = {}
    /\ strayIntervals = {}
    /\ mounted = TRUE
    /\ alerts = {}
    /\ views = [n \in ViewNames |-> IdleView]
    /\ opened = {}
    /\ flow = IdleFlow
    /\ busy = NotBusy

NextAdmin ==
    \/ MountEffects
    \/ AdminEditSize
    \/ AdminEditTypes
    \/ ResetToOriginal
    \/ PolicyChange

SpecAdmin == InitAdmin /\ [][NextAdmin]_vars

----------------------------------------------------------------------------
(* Claims about the Validation Engine *)

\* the entries an add step appended
Appended == SubSeq(fileStates', Len(fileStates) + 1, Len(fileStates'))

\* the files of a list of entries
FilesOf(states) == [i \in 1..Len(states) |-> states[i].file]

\* the sizes of the valid entries among the first n of `states`, summed
RECURSIVE ValidSizeBefore(_, _)
ValidSizeBefore(states, n) ==
    IF n = 0 THEN 0
    ELSE ValidSizeBefore(states, n - 1)
           + (IF states[n].isValid THEN states[n].file.size ELSE 0)

\* the sizes of the valid, non-failed entries of `states`, summed
RECURSIVE ValidNonFailedSize(_)
ValidNonFailedSize(states) ==
    IF states = <<>> THEN 0
    ELSE (IF Head(states).isValid /\ Head(states).status # "failed"
          THEN Head(states).file.size ELSE 0) + ValidNonFailedSize(Tail(states))

\* the sizes of a set of remote files, summed
RECURSIVE SetSize(_)
SetSize(S) ==
    IF S = {} THEN 0
    ELSE LET f == CHOOSE x \in S : TRUE IN f.size + SetSize(S \ {f})

\* C1: whenever an add accepts a file under a limit above 0, right after the
\* add the sizes of the valid, non-failed local entries plus the sizes of the
\* existing remote files are at most the limit, whatever list, add, remove,
\* upload and delete operations came before.
C1_AcceptedWithinLimit ==
    [][(/\ Len(fileStates') > Len(fileStates)
        /\ adminConfig.maxTotalFileSizeMB > 0
        /\ \E i \in 1..Len(Appended) :
               Appended[i].isValid /\ Appended[i].status = "pending")
        => ValidNonFailedSize(fileStates') + SetSize(existingFiles')
              <= adminConfig.maxTotalFileSizeMB * 1024 * 1024
    ]_vars

\* C2 (sizes in the store are whole megabytes; the message carries hundredths
\* of a megabyte): within one addFiles call each file is judged against the files known
\* before the call plus the files of the call accepted before it (a rejected
\* one does not count), and a size rejection reports the candidate size, the
\* total before the candidate and the limit, all in MB; with a 10 MB limit and
\* an empty store, 6 MB then 8 MB then 3 MB gives accepted, rejected (8.00 MB,
\* current 6.00 MB, limit 10 MB), accepted.
C2_RunningBatch ==
    [][Len(fileStates') > Len(fileStates) =>
        LET base == ValidNonFailedSize(fileStates)
            new == Appended
            limit == adminConfig.maxTotalFileSizeMB
        IN /\ \A i \in 1..Len(new) :
                LET before == base + ValidSizeBefore(new, i - 1)
                    fits == limit > 0 => before + new[i].file.size <= limit * 1024 * 1024
                IN /\ new[i].isValid <=> fits
                   /\ new[i].status = (IF fits THEN "pending" ELSE "invalid")
                   /\ ~fits => /\ new[i].error.kind = "size"
                               /\ new[i].error.fileSizeMB
                                     = 100 * (new[i].file.size \div (1024 * 1024))
                               /\ new[i].error.currentSizeMB
                                     = 100 * (before \div (1024 * 1024))
                               /\ new[i].error.limitMB = limit
           /\ (fileStates = <<>> /\ limit = 10 /\ FilesOf(new) = <<FileA, FileB, FileC>>) =>
                /\ new[1].status = "pending" /\ new[3].status = "pending"
                /\ new[2].status = "invalid"
                /\ new[2].error = [kind |-> "size", fileSizeMB |-> 800, limitMB |-> 10,
                                   currentSizeMB |-> 600]
    ]_vars

\* C2 witness: the store after 6 MB, 8 MB, 3 MB were offered in one call
C2_Witness ==
    /\ adminConfig.maxTotalFileSizeMB = 10
    /\ FilesOf(fileStates) = <<FileA, FileB, FileC>>
    /\ fileStates[1].isValid /\ ~fileStates[2].isValid /\ fileStates[3].isValid
    /\ fileStates[2].error.currentSizeMB = 600

\* String.prototype.toUpperCase on the model's alphabet
UpperChar(c) ==
    CASE c = "p" -> "P"
      [] c = "d" -> "D"
      [] c = "a" -> "A"
      [] OTHER -> c

ToUpperCase(s) == [i \in 1..Len(s) |-> UpperChar(s[i])]

\* every separator of an allow-list replaced by `sep`
WithSeparator(s, sep) == [i \in 1..Len(s) |-> IF s[i] \in {";", ","} THEN sep ELSE s[i]]

\* the pieces of a list joined by ';'
RECURSIVE Join(_)
Join(pieces) ==
    IF pieces = <<>> THEN <<>>
    ELSE IF Len(pieces) = 1 THEN pieces[1]
    ELSE pieces[1] \o <<";">> \o Join(Tail(pieces))

\* a piece of an allow-list that the type check treats as an extension pattern
IsExtensionPattern(piece) ==
    LET t == ToLowerCase(Trim(piece))
    IN t # <<>> /\ t # <<"*">> /\ ~Includes(t, "/")

\* a pattern rewritten the other way: without its leading dot, or with one
ToggleDot(piece) ==
    LET t == Trim(piece)
    IN IF StartsWith(t, <<".">>) THEN Tail(t) ELSE <<".">> \o t

\* the allow-list with its i-th piece rewritten the other way
ToggleDotAt(allowed, i) ==
    Join([k \in 1..Len(Split(allowed)) |->
             IF k = i THEN ToggleDot(Split(allowed)[k]) ELSE Split(allowed)[k]])

\* what follows the optional leading dot of a pattern is an extension name:
\* not empty, not the wildcard, starting with neither a dot nor a blank
HasExtensionName(piece) ==
    LET t == Trim(piece)
        body == IF StartsWith(t, <<".">>) THEN Tail(t) ELSE t
    IN body # <<>> /\ body # <<"*">> /\ Head(body) \notin {".", " "}

\* the verdict of the type check recorded in an entry of the store
TypeAccepted(entry) == entry.error.kind # "type"

\* the type check gives the same verdict under the allow-list `other`
SameVerdict(other) ==
    \A e \in 1..Len(fileStates) :
        TypeAccepted(fileStates[e]) <=> IsValidType(fileStates[e].file, other)

\* C3 as stated: the verdict is unchanged by rewriting ANY extension pattern
\* with or without its leading dot, by changing letter case, and by changing
\* the separators.
C3_AnyPatternRewritten ==
    LET allowed == adminConfig.allowedFileTypes
    IN /\ SameVerdict(ToLowerCase(allowed)) /\ SameVerdict(ToUpperCase(allowed))
       /\ SameVerdict(WithSeparator(allowed, ";")) /\ SameVerdict(WithSeparator(allowed, ","))
       /\ \A i \in 1..Len(Split(allowed)) :
             IsExtensionPattern(Split(allowed)[i]) => SameVerdict(ToggleDotAt(allowed, i))

\* C3 amended: the verdict is unchanged by letter case and separators for
\* every allow-list, and by rewriting with or without its leading dot every
\* extension pattern whose part after the optional dot is an extension name
\* (not empty, not '*', not starting with a dot or a blank).
C3_ExtensionNameRewritten ==
    LET allowed == adminConfig.allowedFileTypes
    IN /\ SameVerdict(ToLowerCase(allowed)) /\ SameVerdict(ToUpperCase(allowed))
       /\ SameVerdict(WithSeparator(allowed, ";")) /\ SameVerdict(WithSeparator(allowed, ","))
       /\ \A i \in 1..Len(Split(allowed)) :
             (IsExtensionPattern(Split(allowed)[i]) /\ HasExtensionName(Split(allowed)[i]))
                 => SameVerdict(ToggleDotAt(allowed, i))

\* C3 witness: the file p.p accepted under the pattern "P" (upper case, no
\* dot), which has rewritings in case and with a leading dot
C3_Witness ==
    /\ Len(fileStates) = 1
    /\ fileStates[1].file.name = <<"p", ".", "p">>
    /\ adminConfig.allowedFileTypes = <<"P">>
    /\ TypeAccepted(fileStates[1])

\* String.prototype.endsWith('*') removed: the pattern without a trailing wildcard
StripTrailingStar(s) ==
    IF s # <<>> /\ s[Len(s)] = "*" THEN SubSeq(s, 1, Len(s) - 1) ELSE s

\* the rule of C4 for one pattern
ClaimedMatch(file, pattern) ==
    LET fileName == ToLowerCase(file.name)
        fileType == ToLowerCase(file.type)
    IN IF Includes(pattern, "/")
       THEN fileType = pattern \/ StartsWith(fileType, StripTrailingStar(pattern))
       ELSE /\ Includes(fileName, ".")
            /\ (IF StartsWith(pattern, <<".">>) THEN pattern ELSE <<".">> \o pattern)
                  = SubSeq(fileName, LastIndexOf(fileName, "."), Len(fileName))

\* the rule of C4 for an allow-list
ClaimedAccept(file, allowed) ==
    \/ allowed = <<>>
    \/ Trim(allowed) = <<>>
    \/ Trim(allowed) = <<"*">>
    \/ AllowedTypes(allowed) = <<>>
    \/ \E i \in 1..Len(AllowedTypes(allowed)) : ClaimedMatch(file, AllowedTypes(allowed)[i])

\* C4: the type check accepts a file iff the allow-list is empty, blank, the
\* wildcard or without patterns, or some pattern matches: a pattern with '/'
\* when the MIME type equals it or starts with it stripped of its trailing
\* wildcard, any other pattern when, given a leading dot, it equals the suffix
\* of the file name from its last '.'; a name without '.' matches no extension.
C4_TypeRule ==
    \A e \in 1..Len(fileStates) :
        TypeAccepted(fileStates[e])
            <=> ClaimedAccept(fileStates[e].file, adminConfig.allowedFileTypes)

----------------------------------------------------------------------------
(* Claims about the State Store and the Transfer Orchestrator *)

\* the entries of `states` that validation rejected, in order
InvalidOnes(states) == SelectSeq(states, LAMBDA fs : fs.status = "invalid")

\* s is a prefix of t
IsPrefix(s, t) == Len(s) <= Len(t) /\ SubSeq(t, 1, Len(s)) = s

\* C5: a rejected entry is terminal: over any step that is not a removal, a
\* clear or a context change the rejected entries stay in the store, in order
\* and still rejected (none becomes uploading, completed or failed, none
\* leaves), also when a file of the same name is added and processed.
C5_InvalidIsTerminal ==
    [][~(ClickRemove \/ ClickClear \/ ContextChange)
          => IsPrefix(InvalidOnes(fileStates), InvalidOnes(fileStates'))
    ]_vars

\* one of the six values remote mode needs is absent or empty
AnyAbsent(p) ==
    \E f \in UrlFields \cup {"recordUid"} : p[f] = <<>> \/ Trim(p[f]) = <<>>

\* the names of the files of a call
NamesOf(files) == {files[i].name : i \in 1..Len(files)}

\* a step starts a processFiles call in slot c / ends the local call of slot c
Starts(c) == calls[c].pc = "idle" /\ calls'[c].pc # "idle"
ReadEnds(c) == calls[c].pc = "read" /\ calls'[c].pc = "idle"

\* the local call of slot c ends having read every file
ReadSucceeds(c) == ReadEnds(c) /\ outputs'.lastUploadStatus = 2

\* every entry of the store named by the call of slot c is completed, at 100
MarkedCompleted(c) ==
    \A i \in 1..Len(fileStates') :
        fileStates'[i].file.name \in NamesOf(calls[c].files)
            => fileStates'[i].status = "completed" /\ fileStates'[i].progress = 100

\* loading the existing files on a context change that leaves a value absent
\* sends no request and empties the existing set
LoadSendsNothing ==
    (props' # props /\ AnyAbsent(props'))
        => existingFiles' = {} /\ listCalls' = listCalls

\* a call started while a value is absent takes the local branch, and a local
\* call sends nothing when it ends
ProcessSendsNothing(c) ==
    /\ (Starts(c) /\ AnyAbsent(props)) => calls'[c].pc = "read"
    /\ (ReadEnds(c) /\ AnyAbsent(calls[c].props))
          => blob' = blob /\ listCalls' = listCalls

\* C6 as stated: while any of the four URLs, the container path or the record
\* identity is absent or empty, loading the existing files (at mount and on a
\* context change) sends no request and leaves the existing set empty, and
\* processFiles sends no request and marks every file it processed completed
\* with progress 100.
C6_NoRemoteWhenAbsent ==
    /\ AnyAbsent(props) => existingFiles = {} /\ listCalls = 0
    /\ [][LoadSendsNothing /\
          \A c \in 1..MaxCalls :
              /\ ProcessSendsNothing(c)
              /\ (ReadEnds(c) /\ AnyAbsent(calls[c].props)) => MarkedCompleted(c)
       ]_vars

\* C6 amended: the same, the files being marked completed with progress 100
\* unless reading one of them failed.
C6_NoRemoteWhenAbsentReadOk ==
    /\ AnyAbsent(props) => existingFiles = {} /\ listCalls = 0
    /\ [][LoadSendsNothing /\
          \A c \in 1..MaxCalls :
              /\ ProcessSendsNothing(c)
              /\ (ReadSucceeds(c) /\ AnyAbsent(calls[c].props)) => MarkedCompleted(c)
       ]_vars

\* C6 witness: a container path is missing, a local call has completed a
\* file that is still in the store, nothing was listed and nothing stored
C6_Witness ==
    /\ props.containerPath = <<>>
    /\ \E i \in 1..Len(fileStates) :
          fileStates[i].status = "completed" /\ fileStates[i].progress = 100
    /\ existingFiles = {} /\ blob = {} /\ listCalls = 0

\* the remote call of slot c ends with every upload successful
RemoteSucceeds(c) ==
    /\ calls[c].pc = "list" /\ calls'[c].pc = "idle"
    /\ ~HasFailures(calls[c].results)

\* C7: with a record identity bound, when a processFiles call succeeds (in
\* remote mode, or in the local fallback) the pending store is empty after it
\* and the cumulative batch is as long as before.
C7_BoundCallLeavesNothing ==
    [][\A c \in 1..MaxCalls :
          (~NoRecordUid(calls[c].props) /\ (RemoteSucceeds(c) \/ ReadSucceeds(c)))
              => /\ fileStates' = <<>>
                 /\ Len(cumulativeFilesJSON') = Len(cumulativeFilesJSON)
    ]_vars

\* a local call made with no record identity ends having read every file
UnboundSucceeds(c) == ReadSucceeds(c) /\ NoRecordUid(calls[c].props)

\* the cumulative batch grows by exactly the files of the successful unbound
\* call of this step, in order, and is unchanged by a step without one
GrowsByCalls ==
    IF \E c \in 1..MaxCalls : UnboundSucceeds(c)
    THEN \E c \in 1..MaxCalls :
            /\ UnboundSucceeds(c)
            /\ cumulativeFilesJSON' = cumulativeFilesJSON
                   \o [i \in 1..Len(calls[c].files) |-> JSONFile(calls[c].files[i])]
    ELSE cumulativeFilesJSON' = cumulativeFilesJSON

C9_ReportedIsStored ==
    [][\A c \in 1..MaxCalls :
          UnboundSucceeds(c)
              => outputs'.filesAsJSON = JSONstringify(cumulativeFilesJSON')
    ]_vars

\* the step removes the entries of one name from the store and from the batch
DropsOneName ==
    \E i \in 1..Len(fileStates) :
        LET n == fileStates[i].file.name
        IN /\ fileStates' = SelectSeq(fileStates, LAMBDA fs : fs.file.name # n)
           /\ cumulativeFilesJSON' =
                  SelectSeq(cumulativeFilesJSON, LAMBDA file : file.name # n)

----------------------------------------------------------------------------
(* C11: which list responses are a success *)

\* the response reports success=true or carries a files array, whatever its
\* HTTP status
ClaimedListSuccess(r) == r.parses /\ (r.success \/ r.files.kind = "array")

\* the response carries a files array, or has an ok status, reports
\* success=true and carries no files value
ArrayOrPlainSuccess(r) ==
    r.parses /\ (\/ r.files.kind = "array"
                 \/ r.ok /\ r.success /\ r.files.kind = "absent")

\* response r replaced the existing set by its files and reported them
ListReplaces(r) ==
    /\ existingFiles' = r.files.items
    /\ outputs'.existingFiles = JSONstringify(r.files.items)

\* the response left the existing set and the outputs as they were
ListLeavesAlone == existingFiles' = existingFiles /\ outputs' = outputs

\* C11 as stated: a list response is a success, replacing the existing set by
\* its files (none when it has no array), exactly when it reports success=true
\* or carries a files array, whatever the HTTP status; every other response is
\* an error that leaves the set as it was.
C11_SuccessOrArray ==
    [][\A r \in ListResponses :
          /\ EffectListResponseOn(r) =>
                IF ClaimedListSuccess(r) THEN ListReplaces(r) ELSE ListLeavesAlone
          /\ \A n \in DeleteNames :
                DeleteListResponseOn(n, r) =>
                    existingFiles' = IF ClaimedListSuccess(r) THEN r.files.items
                                     ELSE existingFiles]_vars

\* C11 amended: a list response is a success exactly when it carries a files
\* array (whatever the status and the success flag), or has an ok status,
\* reports success=true and carries no files value; every other response is an
\* error that leaves the set as it was.
C11_ArrayOrOkSuccess ==
    [][\A r \in ListResponses :
          /\ EffectListResponseOn(r) =>
                IF ArrayOrPlainSuccess(r) THEN ListReplaces(r) ELSE ListLeavesAlone
          /\ \A n \in DeleteNames :
                DeleteListResponseOn(n, r) =>
                    existingFiles' = IF ArrayOrPlainSuccess(r) THEN r.files.items
                                     ELSE existingFiles]_vars

\* the list response after a delete has emptied a set that still held a file
C11_Witness ==
    /\ contextChanges = 0
    /\ listCalls = 0
    /\ existingFiles = {}
    /\ outputs.existingFiles = JSONstringify({JSONFile(FileC)})
    /\ \A n \in DeleteNames : deletes[n].pc = "idle"

----------------------------------------------------------------------------
(* C12: what changes the existing-remote set *)

\* the step is a list response that is a success and replaces the set by its
\* files
ReplacedByList ==
    \E r \in ListResponses :
        /\ ArrayOrPlainSuccess(r)
        /\ EffectListResponseOn(r) \/ \E n \in DeleteNames : DeleteListResponseOn(n, r)
        /\ existingFiles' = r.files.items

\* the step is a list response that is an error
FailedList ==
    \E r \in ListResponses :
        /\ ~ArrayOrPlainSuccess(r)
        /\ EffectListResponseOn(r) \/ \E n \in DeleteNames : DeleteListResponseOn(n, r)

\* the step binds a context that is not configured and empties the set
EmptiedUnconfigured ==
    /\ props' # props
    /\ ~isCloudFlowConfigured(props')
    /\ existingFiles' = {}

\* the step is the success of a delete request, dropping the deleted name
PatchedByDelete ==
    \E n \in DeleteNames :
        /\ deletes[n].pc = "delete"
        /\ deletes'[n].pc = "list"
        /\ existingFiles' = {e \in existingFiles : e.name # n}

----------------------------------------------------------------------------
(* C13: the progress value of a file *)

\* the file of entry i of `states` is the one a call in `cs` is uploading
InFlightIn(states, cs, i) ==
    \E c \in 1..MaxCalls :
        /\ cs[c].pc = "upload"
        /\ cs[c].files[cs[c].idx] = states[i].file

\* the progress of every entry in flight is below the cap
BelowCapInFlight ==
    \A i \in 1..Len(fileStates) :
        InFlightIn(fileStates, calls, i) => fileStates[i].progress < ProgressCap

\* the progress of an entry that stays in flight does not decrease
NonDecreasingInFlight ==
    \A i \in 1..Len(fileStates) :
        (/\ i <= Len(fileStates')
         /\ InFlightIn(fileStates, calls, i)
         /\ InFlightIn(fileStates', calls', i))
            => fileStates'[i].progress >= fileStates[i].progress

\* an entry whose result is applied shows 100 when completed and 0 when failed
ResultProgress ==
    \A i \in 1..Len(fileStates) :
        /\ fileStates[i].status = "completed" => fileStates[i].progress = 100
        /\ fileStates[i].status = "failed" => fileStates[i].progress = 0

\* C13: while a file is in flight its progress is non-decreasing and never
\* reaches or exceeds 95; once its result is known the progress is exactly 100
\* if the upload succeeded and exactly 0 if it failed.
C13_ProgressBounds ==
    /\ [](BelowCapInFlight /\ ResultProgress)
    /\ [][NonDecreasingInFlight]_vars

----------------------------------------------------------------------------
(* C14: ticks against results and teardown *)

\* the result of the file of entry i is known: it is applied to the entry, or
\* a running call holds it
ResultKnown(i) ==
    \/ fileStates[i].status \in {"completed", "failed"}
    \/ \E c \in 1..MaxCalls :
          /\ calls[c].pc = "upload"
          /\ \E k \in 1..(calls[c].idx - 1) : calls[c].files[k] = fileStates[i].file

\* a tick leaves alone every entry whose result is known
TickLeavesKnown ==
    Tick => \A i \in 1..Len(fileStates) : ResultKnown(i) => fileStates'[i] = fileStates[i]

\* a tick after teardown leaves the store alone
TickLeavesTornDown == (Tick /\ ~mounted) => fileStates' = fileStates

\* the interval tasks that still run
LiveTasks == {t \in progressSimulationIntervals : t.live} \cup strayIntervals

\* no task runs after teardown, nor when no upload is outstanding
NoTaskLeft ==
    (~mounted \/ \A c \in 1..MaxCalls : calls[c].pc # "upload") => LiveTasks = {}

\* C14: a progress tick never changes a file's state after that file's result
\* is known, nor after teardown; stopping the task on the result and the
\* teardown cleanup leave no live tick task, also when teardown happens while a
\* multi-file batch still has files left.
C14_NoTickAfterResultOrTeardown ==
    /\ []NoTaskLeft
    /\ [][TickLeavesKnown /\ TickLeavesTornDown]_vars

----------------------------------------------------------------------------
(* C15: removeFile and the entries it must not remove *)

\* the entries of a store that are uploading, completed or failed, in order
Protected(states) ==
    SelectSeq(states, LAMBDA fs : fs.status \in {"uploading", "completed", "failed"})

\* the entry removeFile finds for the name is uploading, completed or failed
NamedIsProtected(fileName) ==
    \E i \in 1..Len(fileStates) :
        /\ fileStates[i].file.name = fileName
        /\ \A k \in 1..(i - 1) : fileStates[k].file.name # fileName
        /\ fileStates[i].status \in {"uploading", "completed", "failed"}

\* C15: removeFile removes an entry only when it is pending or invalid; when
\* the named entry is uploading, completed or failed the call leaves the whole
\* store unchanged; whatever was added before, two files of one name included,
\* no uploading, completed or failed entry is ever removed by removeFile.
C15_RemoveKeepsProtected ==
    [][\A i \in 1..Len(fileStates) :
          (/\ fileStates[i].status \in {"pending", "invalid"}
           /\ removeFile(fileStates[i].file.name))
             => /\ Protected(fileStates') = Protected(fileStates)
                /\ NamedIsProtected(fileStates[i].file.name) =>
                      /\ fileStates' = fileStates
                      /\ cumulativeFilesJSON' = cumulativeFilesJSON
                      /\ outputs' = outputs]_vars

\* the remove button of a pending entry names a file whose first entry is
\* completed: the call is refused
C15_Witness ==
    \E i, j \in 1..Len(fileStates) :
        /\ i < j
        /\ fileStates[i].file.name = fileStates[j].file.name
        /\ fileStates[i].status = "completed"
        /\ fileStates[j].status = "pending"

----------------------------------------------------------------------------
(* C16: the status changes of an entry *)

\* the status changes the claim allows
AllowedChanges ==
    {<<"pending", "uploading">>, <<"invalid", "uploading">>,
     <<"uploading", "completed">>, <<"uploading", "failed">>}

AllowedChange(before, after) == before = after \/ <<before, after>> \in AllowedChanges

\* every entry kept by the step changed its status in an allowed way: entries
\* keep their position unless the step drops entries, and a step that drops
\* entries leaves the others as they were
AllowedStep ==
    IF Len(fileStates') >= Len(fileStates)
    THEN \A i \in 1..Len(fileStates) :
            AllowedChange(fileStates[i].status, fileStates'[i].status)
    ELSE \A j \in 1..Len(fileStates') :
            \E i \in 1..Len(fileStates) :
                /\ fileStates[i].file = fileStates'[j].file
                /\ AllowedChange(fileStates[i].status, fileStates'[j].status)

\* C16: every status change of an entry is pending -> uploading, invalid ->
\* uploading, uploading -> completed or uploading -> failed; no entry becomes
\* completed or failed without being uploading first, in remote and in local
\* JSON mode alike, and no entry leaves completed or failed.
C16_StatusChanges == [][AllowedStep]_vars

----------------------------------------------------------------------------
(* C17: pending is never entered again *)

\* no entry kept by the step goes back to pending: entries keep their position
\* unless the step drops entries, and a step that drops entries leaves the
\* others as they were
NoReturnToPending ==
    IF Len(fileStates') >= Len(fileStates)
    THEN \A i \in 1..Len(fileStates) :
            fileStates[i].status # "pending" => fileStates'[i].status # "pending"
    ELSE \A j \in 1..Len(fileStates') :
            \E i \in 1..Len(fileStates) : fileStates[i] = fileStates'[j]

\* C17: no entry whose status has left pending is ever pending again.
C17_PendingNotReentered == [][NoReturnToPending]_vars

\* an entry that failed stays failed next to a new pending entry of its name
C17_Witness ==
    \E i, j \in 1..Len(fileStates) :
        /\ i < j
        /\ fileStates[i].file.name = fileStates[j].file.name
        /\ fileStates[i].status = "failed"
        /\ fileStates[j].status = "pending"

----------------------------------------------------------------------------
(* C18: one upload request at a time *)

\* the calls whose upload request is outstanding
OutstandingUploads == {c \in 1..MaxCalls : calls[c].pc = "upload"}

\* C18: uploads are strictly sequential: at most one upload request is
\* outstanding at any moment, also when the user adds files and triggers
\* Upload All again while an earlier batch is in flight.
C18_OneUploadOutstanding == Cardinality(OutstandingUploads) <= 1

----------------------------------------------------------------------------
(* C19: the outcome of a file follows its upload response *)

\* how file k of call c settled, when the file in flight settles with `outcome`
OutcomeOf(c, k, outcome) ==
    IF k = calls[c].idx THEN outcome
    ELSE IF calls[c].results[k].success THEN "success"
    ELSE calls[c].results[k].error.kind

\* the files call c attempts: all of them, or the first one when multiple-file
\* selection is off
Attempted(c) ==
    IF calls[c].props.buttonAllowMultipleFiles THEN 1..Len(calls[c].files) ELSE {1}

\* the entry shows what the claim promises for a file that settled with
\* `outcome`
EntryFollows(entry, outcome) ==
    IF outcome = "success"
    THEN /\ entry.status = "completed"
         /\ entry.progress = 100
         /\ entry.url = <<"u">> \o entry.file.name
         /\ entry.error = NoError
    ELSE /\ entry.status = "failed"
         /\ entry.progress = 0
         /\ entry.error.kind = outcome

\* the upload phase of call c ends with `outcome` for its last file
UploadPhaseEnds(c, outcome) ==
    UploadResponseOn(c, outcome) /\ calls'[c].pc # "upload"

\* C19: a file's final state follows its upload response: a response that is
\* not 2xx, or a 2xx response with success=false, makes it failed with
\* progress 0 and the error message; a 2xx response with success=true makes it
\* completed with progress 100, the returned URL stored and no error.
C19_OutcomeFollowsResponse ==
    [][\A c \in 1..MaxCalls, outcome \in AllUploadOutcomes :
          UploadPhaseEnds(c, outcome) =>
              \A k \in Attempted(c), i \in 1..Len(fileStates') :
                  fileStates'[i].file = calls[c].files[k]
                      => EntryFollows(fileStates'[i], OutcomeOf(c, k, outcome))]_vars

----------------------------------------------------------------------------
(* C20: one result per file of the batch *)

\* the results uploadToCloudFlow returns when the upload phase of call c ends
FinalResults(c) ==
    IF calls'[c].pc = "list" THEN calls'[c].results
    ELSE JSONparse(outputs'.uploadResults)

\* the results hold one result per file of the call, in order, each with the
\* outcome of its file
OneResultPerFile(c, outcome) ==
    LET rs == FinalResults(c)
    IN /\ Len(rs) = Len(calls[c].files)
       /\ \A k \in 1..Len(rs) :
             /\ rs[k].fileName = calls[c].files[k].name
             /\ rs[k].success <=> OutcomeOf(c, k, outcome) = "success"

\* the call ends after its list request and reports the results it holds
ReportsItsResults(c) ==
    (calls[c].pc = "list" /\ calls'[c].pc = "idle")
        => JSONparse(outputs'.uploadResults) = calls[c].results

\* C20: a remote failure of one file does not abort its siblings: every file
\* of the batch is attempted and the reported results contain exactly one
\* result per file, in order, whatever the outcomes and whether or not
\* multiple-file selection is enabled.
C20_OneResultPerFile ==
    [][\A c \in 1..MaxCalls :
          /\ ReportsItsResults(c)
          /\ \A outcome \in AllUploadOutcomes :
                UploadPhaseEnds(c, outcome) => OneResultPerFile(c, outcome)]_vars

----------------------------------------------------------------------------
(* C21: which delete responses are a success *)

\* the handler of file n ended without a list request
NoListCall(n) ==
    /\ deletes'[n].pc = "idle"
    /\ listCalls' = listCalls
    /\ loadingExistingFiles' = loadingExistingFiles

\* an error of the delete handler was shown to the user
DeleteErrorSurfaced == \E a \in alerts' : a.handler = "delete"

\* C21: a delete is a success only when the response has an ok status and
\* success=true, and then the list request is sent; on every other response,
\* and when the configuration is missing, the error is shown, no list request
\* is sent and the existing set is as before.
C21_DeleteSuccess ==
    [][\A n \in DeleteNames :
          /\ \A r \in DeleteResponses :
                DeleteResponseOn(n, r) =>
                    IF r.ok /\ r.success
                    THEN deletes'[n].pc = "list"
                    ELSE /\ DeleteErrorSurfaced
                         /\ NoListCall(n)
                         /\ existingFiles' = existingFiles
          /\ (ConfirmDeleteOn(n) /\ ~isCloudFlowConfigured(props))
                => /\ DeleteAlert("config") \in alerts'
                   /\ NoListCall(n)
                   /\ existingFiles' = existingFiles
                   /\ blob' = blob
    ]_vars

\* C21 witness: a delete was refused for a missing configuration, another
\* failed with a status that is not ok, and a successful one awaits its list
\* response with its file filtered out of the existing set
C21_Witness ==
    /\ DeleteAlert("config") \in alerts
    /\ DeleteAlert("httpError") \in alerts
    /\ \E n \in DeleteNames :
          /\ deletes[n].pc = "list"
          /\ \A e \in existingFiles : e.name # n
    /\ existingFiles # {}

----------------------------------------------------------------------------
(* The pending-call specification: every kind of remote call, the timers of  *)
(* the program firing as long as they run, the backend free never to answer  *)

\* the answers of the backend under this specification: a success of each
\* kind, and a status that is not ok
GoodList == [ok |-> TRUE, parses |-> TRUE, success |-> TRUE,
             files |-> [kind |-> "array", items |-> blob]]
BadStatus == [ok |-> FALSE, parses |-> FALSE, success |-> FALSE]
GoodDelete == [ok |-> TRUE, parses |-> TRUE, success |-> TRUE]
GoodDownload == [ok |-> TRUE, parses |-> TRUE,
                 top |-> [f \in PayloadFields |-> "value"],
                 body |-> [kind |-> "undefined",
                           payload |-> [f \in PayloadFields |-> "undefined"]]]
BadDownload == [GoodDownload EXCEPT !.ok = FALSE]

AnsweredDelete ==
    \E n \in DeleteNames, r \in {GoodDelete, BadStatus} : DeleteResponseOn(n, r)

AnsweredDeleteList == \E n \in DeleteNames : DeleteListResponseOn(n, GoodList)

AnsweredDownload ==
    \E n \in ViewNames, r \in {GoodDownload, BadDownload} : DownloadResponseOn(n, r)

\* no remote call is pending
Quiet ==
    /\ \A c \in 1..MaxCalls : calls[c].pc = "idle"
    /\ listCalls = 0
    /\ \A n \in DeleteNames : deletes[n].pc = "idle"
    /\ \A n \in ViewNames : views[n].pc = "idle"

InitPending ==
    /\ props = BaseProps(FALSE, TRUE)
    /\ Init

\* the user acts only while no call is pending: one call at a time
NextPending ==
    \/ Quiet /\ OfferFiles
    \/ Quiet /\ ClickUploadAll
    \/ UploadResponse
    \/ ProcessListResponse
    \/ EffectListResponse
    \/ Quiet /\ ConfirmDelete
    \/ AnsweredDelete
    \/ AnsweredDeleteList
    \/ Quiet /\ ViewExistingFile
    \/ AnsweredDownload
    \/ Tick

\* the event loop runs a due timer callback; nothing makes the backend answer
SpecPending == InitPending /\ [][NextPending]_vars /\ WF_vars(Tick)

----------------------------------------------------------------------------
(* C22: no remote call pends forever *)

\* the file the upload request of call c is about is in the uploading state
ServedUploading(c) ==
    /\ calls[c].pc = "upload"
    /\ \E i \in 1..Len(fileStates) :
          /\ fileStates[i].file.name = calls[c].files[calls[c].idx].name
          /\ fileStates[i].status = "uploading"

\* C22: every remote call (upload, list, delete, download) ends, by a timeout
\* if the backend never answers, so that no call stays pending forever and the
\* file an upload serves does not stay in the uploading state forever.
C22_CallsTimeOut ==
    /\ \A c \in 1..MaxCalls :
          /\ (calls[c].pc = "upload") ~> (calls[c].pc # "upload")
          /\ (calls[c].pc = "list") ~> (calls[c].pc # "list")
    /\ (listCalls > 0) ~> (listCalls = 0)
    /\ \A n \in DeleteNames :
          /\ (deletes[n].pc = "delete") ~> (deletes[n].pc # "delete")
          /\ (deletes[n].pc = "list") ~> (deletes[n].pc # "list")
    /\ \A n \in ViewNames : (views[n].pc = "download") ~> (views[n].pc = "idle")
    /\ \A c \in 1..MaxCalls : ServedUploading(c) ~> ~ServedUploading(c)

----------------------------------------------------------------------------
(* C23: the policy after startup *)

\* C23: when the effects of the first render have run, the active policy is
\* the override that was stored when the component started, if that parses and
\* has both fields (a size that is not 0, and the types), and the bound
\* configuration otherwise.
C23_StartupPolicy ==
    [][MountEffects =>
          adminConfig' = IF ValidSaved(localStorage.item)
                         THEN JSONparse(localStorage.item)
                         ELSE BoundConfig(props)]_vars

----------------------------------------------------------------------------
(* C24: the stored override follows the active one *)

\* a step that changes the override: an admin edit, a reset to the original
\* values, a change of a bound policy value
OverrideChange == AdminEditSize \/ AdminEditTypes \/ ResetToOriginal \/ PolicyChange

\* after a change of a bound policy value the override is the bound
\* configuration
BoundWins == PolicyChange => adminConfig' = BoundConfig(props')

\* C24 as stated: after every change of the override (an admin edit of either
\* field, a reset to the original, a reset caused by a change of the bound
\* configuration) the stored value is the active override; and after a change
\* of a bound value the active override is the bound configuration.
C24_StoredIsActive ==
    [][OverrideChange =>
          /\ localStorage'.item = JSONstringify(adminConfig')
          /\ BoundWins]_vars

\* C24 amended: the same, the stored value being the active override
\* whenever localStorage accepts the write; when setItem throws, the stored
\* value stays what it was.
C24_StoredIsActiveIfWritable ==
    [][OverrideChange =>
          /\ localStorage'.item = IF localStorage.writable
                                  THEN JSONstringify(adminConfig')
                                  ELSE localStorage.item
          /\ BoundWins]_vars

\* C24 witness: a writable store holding an override of 5 MB that an admin
\* edit made and that differs from the bound configuration
C24_Witness ==
    /\ ~mountEffectsPending
    /\ localStorage.writable
    /\ adminConfig.maxTotalFileSizeMB = 5
    /\ adminConfig # BoundConfig(props)
    /\ props.maxTotalFileSizeMB = 5
    /\ localStorage.item = JSONstringify(adminConfig)

----------------------------------------------------------------------------
(* The acceptance specification: files are offered and uploaded while the
   policy changes *)

InitPolicy == props = BaseProps(TRUE, TRUE) /\ Init

NextPolicy ==
    \/ OfferFiles
    \/ ClickUploadAll
    \/ UploadResponse
    \/ ProcessListResponse
    \/ EffectListResponse
    \/ AdminEditSize
    \/ PolicyChange

SpecPolicy == InitPolicy /\ [][NextPolicy]_vars

----------------------------------------------------------------------------
(* C25: the policy is enforced when a file is offered, not afterwards *)

\* the policy in force changes
PolicyStep == adminConfig' # adminConfig

\* the call of processFiles a step started
StartedCalls == {c \in 1..MaxCalls : calls[c].pc = "idle" /\ calls'[c].pc # "idle"}

\* in `states` the entry of every file of `files` is uploading
AllUploading(states, files) ==
    \A i \in 1..Len(states) :
        (\E j \in 1..Len(files) : files[j].name = states[i].file.name)
            => states[i].status = "uploading"

\* C25: a change of the policy leaves every local entry as it was (isValid,
\* status and error are those computed when the file was offered); and Upload
\* All uploads every entry that is pending and was accepted when offered,
\* whatever the policy is now.
C25_AcceptedStaysAccepted ==
    [][/\ PolicyStep => fileStates' = fileStates
       /\ ClickUploadAll =>
            \E c \in StartedCalls :
                /\ calls'[c].files =
                      FilesOf(SelectSeq(fileStates,
                          LAMBDA fs : fs.status = "pending" /\ fs.isValid))
                /\ AllUploading(fileStates', calls'[c].files)]_vars

\* C25 witness: the 6 MB file accepted under the limit of 10 MB is being
\* uploaded by an Upload All clicked after the limit became 5 MB
C25_Witness ==
    \E c \in 1..MaxCalls :
        /\ calls[c].pc = "upload"
        /\ calls[c].props.maxTotalFileSizeMB = 5
        /\ adminConfig.maxTotalFileSizeMB = 5
        /\ calls[c].files[calls[c].idx] = FileA
        /\ \E i \in 1..Len(fileStates) :
              /\ fileStates[i].file = FileA
              /\ fileStates[i].isValid
              /\ fileStates[i].status = "uploading"


----------------------------------------------------------------------------
(* C26: Clear New Files *)

\* C26: wherever the Clear New Files button can be clicked, clearNewFiles
\* empties the local entries and leaves the existing remote files as they
\* were.
C26_ClearKeepsExisting ==
    [][ClickClear => fileStates' = <<>> /\ existingFiles' = existingFiles]_vars

\* C26 witness: the last batch was one file whose upload failed, so its entry
\* could not be removed by itself; the local entries are gone without a change
\* of the bound record, and the existing remote files are still there
C26_Witness ==
    /\ fileStates = <<>>
    /\ existingFiles # {}
    /\ contextChanges = 0
    /\ \A c \in 1..MaxCalls : calls[c].pc = "idle"
    /\ outputs.uploadResults = JSONstringify(<<UploadResult(FileA, "httpError")>>)


----------------------------------------------------------------------------
(* C27: after a remote batch *)

\* the batch of call c has a success when its last file settles with `outcome`
BatchSucceeds(c, outcome) == outcome = "success" \/ AnySuccess(calls[c].results)

\* processFiles of call c gets the answer of its list call
ListAnswered(c) == calls[c].pc = "list" /\ calls'[c].pc # "list"

\* the results of `results` that failed for the name n
FailedResults(results, n) ==
    {k \in 1..Len(results) : ~results[k].success /\ results[k].fileName = n}

\* the entries of `states` of the name n that are failed
FailedEntries(states, n) ==
    {i \in 1..Len(states) : states[i].file.name = n /\ states[i].status = "failed"}

\* C27: after a remote batch with a success the remote files are listed
\* first, and only when the list call has returned every succeeded name is
\* dropped from the local entries, while every file that failed stays there
\* with status failed; after a batch with no success no list call is made and
\* no local entry is dropped.
C27_ListThenDrop ==
    [][\A c \in 1..MaxCalls :
          /\ \A outcome \in AllUploadOutcomes :
                UploadPhaseEnds(c, outcome) =>
                    /\ FilesOf(fileStates') = FilesOf(fileStates)
                    /\ IF BatchSucceeds(c, outcome)
                       THEN calls'[c].pc = "list"
                       ELSE /\ calls'[c].pc = "idle"
                            /\ loadingExistingFiles' = loadingExistingFiles
          /\ ListAnswered(c) =>
                /\ \A i \in 1..Len(fileStates') :
                      fileStates'[i].file.name \notin SuccessfulUploads(calls[c].results)
                /\ \A n \in ViewNames :
                      Cardinality(FailedEntries(fileStates', n))
                          >= Cardinality(FailedResults(calls[c].results, n))]_vars


----------------------------------------------------------------------------
(* C28: an exception escapes processFiles *)

\* the names of the files of call c
BatchNames(c) == {calls[c].files[k].name : k \in 1..Len(calls[c].files)}

\* the entries of `states` whose file has one of the names
EntriesOf(states, names) == {i \in 1..Len(states) : states[i].file.name \in names}

\* C28: when an exception escapes processFiles (a read of the local branch
\* rejects; the remote branch catches its own errors), the loading indicator
\* is initial again, every entry of a file of the batch is failed with
\* progress 0 and one and the same error message, no progress task of a file
\* of the batch is left, and the status Failed is reported outward.
C28_ExceptionFailsBatch ==
    [][\A c \in 1..MaxCalls :
          ReadDoneOn(c, FALSE) =>
              /\ buttonLoadingState' = "initial"
              /\ Len(fileStates') = Len(fileStates)
              /\ \A i \in EntriesOf(fileStates', BatchNames(c)) :
                    /\ fileStates'[i].status = "failed"
                    /\ fileStates'[i].progress = 0
              /\ \A i, j \in EntriesOf(fileStates', BatchNames(c)) :
                    fileStates'[i].error = fileStates'[j].error
              /\ \A t \in progressSimulationIntervals' : t.fileName \notin BatchNames(c)
              /\ outputs'.lastUploadStatus = StatusCode("Failed")]_vars

\* C28 witness: a batch of two files ended in the catch block: both entries
\* are failed with the error of the read, the button is back to initial after
\* the spinner, and Failed is the last status reported
C28_Witness ==
    /\ Len(fileStates) = 2
    /\ fileStates[1].file.name # fileStates[2].file.name
    /\ \A i \in 1..2 : /\ fileStates[i].status = "failed"
                       /\ fileStates[i].progress = 0
                       /\ fileStates[i].error.kind = "readError"
    /\ props.buttonShowActionSpinner
    /\ buttonLoadingState = "initial"
    /\ outputs.lastUploadStatus = 3
    /\ \A c \in 1..MaxCalls : calls[c].pc = "idle"


----------------------------------------------------------------------------
(* The event specification: handleFileUpload on every event *)

\* what an event carries in filesJSON, in existingFiles, in uploadResults and
\* in uploadStatus: nothing, the empty string <<>>, or a string
EventFiles == {Absent, <<>>, JSONstringify(<<>>), JSONstringify(<<JSONFile(FileA)>>)}
EventExisting == {Absent, <<>>, JSONstringify({}), JSONstringify({JSONFile(FileA)})}
EventResults == {Absent, <<>>, JSONstringify(<<>>)}
EventStatuses == {"absent", "", "None", "InProgress", "Completed", "Failed", "Other"}

Events == [filesJSON : EventFiles, existingFiles : EventExisting,
           uploadResults : EventResults, uploadStatus : EventStatuses]

\* onEvent(e): the component hands the event e to handleFileUpload
HostEventOn(e) ==
    /\ mounted
    /\ outputs' = handleFileUpload(outputs, e)
    /\ UNCHANGED <<props, fileStates, existingFiles, cumulativeFilesJSON, adminConfig,
                   buttonLoadingState, loadingExistingFiles, calls, listCalls, blob,
                   contextChanges, deletes, progressSimulationIntervals,
                   strayIntervals, mounted, localStorage, mountEffectsPending,
                   alerts, views, opened, flow, busy>>

HostEvent == \E e \in Events : HostEventOn(e)

\* the control is constructed and rendered, no event has arrived
InitEvents ==
    /\ props = BaseProps(TRUE, TRUE)
    /\ localStorage = [item |-> NoItem, writable |-> TRUE]
    /\ InitAdmin

NextEvents == HostEvent

SpecEvents == InitEvents /\ [][NextEvents]_vars

----------------------------------------------------------------------------
(* C29: an event updates the outputs it carries *)

\* the code of a status the claim gives
ClaimedCode(uploadStatus) ==
    IF uploadStatus = "InProgress" THEN 1
    ELSE IF uploadStatus = "Completed" THEN 2
    ELSE IF uploadStatus = "Failed" THEN 3
    ELSE 0

\* the host is notified once
NotifiedOnce == outputs.notified < MaxNotified => outputs'.notified = outputs.notified + 1

\* what the host reads before and after the step
Read == getOutputs(outputs)
ReadNext == getOutputs(outputs')

Carried(v) == v # Absent /\ v # <<>>

----------------------------------------------------------------------------
(* The download specification: the Download button of the existing files *)

\* the remote files: one the list flow gives a direct URL for, one without
ListedWithUrl ==
    {[name |-> FileA.name, size |-> FileA.size, url |-> <<"u">> \o FileA.name],
     [name |-> FileC.name, size |-> FileC.size, url |-> <<>>]}

\* no download has failed and none is in flight
NoViewFailed ==
    /\ \A a \in alerts : a.handler # "view"
    /\ \A n \in ViewNames : views[n].pc = "idle"

\* the component after mounting and after its list call returned both files
InitDownload ==
    /\ props = BaseProps(TRUE, TRUE)
    /\ adminConfig = [maxTotalFileSizeMB |-> props.maxTotalFileSizeMB,
                      allowedFileTypes |-> props.buttonAllowedFileTypes]
    /\ fileStates = <<>>
    /\ existingFiles = ListedWithUrl
    /\ cumulativeFilesJSON = <<>>
    /\ buttonLoadingState = "initial"
    /\ loadingExistingFiles = FALSE
    /\ calls = [c \in 1..MaxCalls |-> IdleCall]
    /\ listCalls = 0
    /\ blob = ListedWithUrl
    /\ contextChanges = 0
    /\ outputs = onEvents(NoOutputs,
          <<[NoEvent EXCEPT !.filesJSON = JSONstringify(<<>>)],
            [NoEvent EXCEPT !.existingFiles = JSONstringify(ListedWithUrl)]>>)
    /\ deletes = [n \in DeleteNames |-> IdleDelete]
    /\ progressSimulationIntervals = {}
    /\ strayIntervals = {}
    /\ mounted = TRUE
    /\ localStorage = [item |-> JSONstringify(adminConfig), writable |-> TRUE]
    /\ mountEffectsPending = FALSE
    /\ alerts = {}
    /\ views = [n \in ViewNames |-> IdleView]
    /\ opened = {}
    /\ flow = IdleFlow
    /\ busy = NotBusy

NextDownload ==
    \/ NoViewFailed /\ ViewExistingFile
    \/ DownloadResponse
    \/ UrlChange

SpecDownload == InitDownload /\ [][NextDownload]_vars

----------------------------------------------------------------------------
(* C30: the shapes of a download response *)

\* the three fields are all there in a payload
AllPresent(payload) == \A f \in PayloadFields : payload[f] # "undefined"

\* the response has the three fields at the top level, or all under body
ClaimedShape(r) ==
    AllPresent(r.top) \/ (r.body.kind = "object" /\ AllPresent(r.body.payload))

\* the step created a link for file n and reported no error
LinkCreated(n) ==
    /\ \E level \in {"top", "body"} : opened' = opened \cup {Link(n, level)}
    /\ alerts' = alerts

\* the step reported an error and created nothing
ErrorReported == opened' = opened /\ alerts' # alerts

\* without a download endpoint the handler of file n sends no request and
\* opens the direct URL of the file, if it has one
DirectView(n) ==
    (ViewExistingFileOn(n) /\ props.cloudFlowDownloadUrl = <<>>) =>
        /\ views' = views
        /\ LET url == UrlOf(CHOOSE e \in existingFiles : e.name = n)
           IN opened' = IF url # <<>> THEN opened \cup {Window(url)} ELSE opened

\* C30: a download response (status ok, a JSON body) is accepted iff
\* fileContent, contentType and fileName are all present at the top level or
\* all present under body; for any other shape, the three fields split
\* between the levels included, the handler reports an error and creates no
\* link. With no download endpoint configured no request is sent and the
\* direct URL of the file is opened if it is known.
C30_ShapeDecides ==
    [][\A n \in ViewNames :
          /\ \A r \in DownloadResponses :
                (r.ok /\ r.parses /\ DownloadResponseOn(n, r)) =>
                    IF ClaimedShape(r) THEN LinkCreated(n) ELSE ErrorReported
          /\ DirectView(n)]_vars


----------------------------------------------------------------------------
(* The folder specification: requests under every folder name *)

InitFolder ==
    /\ props \in {[BaseProps(FALSE, TRUE) EXCEPT !.listFilesFolderName = name] :
                     name \in FolderNames}
    /\ InitMounted

NextFolder ==
    \/ Quiet /\ OfferFiles
    \/ Quiet /\ ClickUploadAll
    \/ UploadResponse
    \/ ProcessListResponse
    \/ EffectListResponse
    \/ Quiet /\ ConfirmDelete
    \/ AnsweredDelete
    \/ AnsweredDeleteList
    \/ Quiet /\ ViewExistingFile
    \/ AnsweredDownload
    \/ FolderChange

SpecFolder == InitFolder /\ [][NextFolder]_vars

----------------------------------------------------------------------------
(* C31: the folder path of the requests *)

\* a folder name or a record identity is there
IsThere(v) == v # Absent /\ v # <<>>

\* the folder path the claim gives for the props p
ClaimedFolder(p) ==
    IF IsThere(p.listFilesFolderName) /\ IsThere(p.recordUid)
    THEN p.listFilesFolderName \o <<"/">> \o p.recordUid
    ELSE IF IsThere(p.listFilesFolderName) THEN p.listFilesFolderName
    ELSE IF IsThere(p.recordUid) THEN p.recordUid
    ELSE <<>>

\* the file path the claim gives for a download of fileName under p
ClaimedFilePath(p, fileName) ==
    IF ClaimedFolder(p) = <<>> THEN fileName
    ELSE ClaimedFolder(p) \o <<"/">> \o fileName

\* C31: the folder path of every list, upload and delete request in flight is
\* folder name, '/', record identity when both are there, the one that is
\* there otherwise, empty when none is; the file path of every download
\* request in flight is that folder path, '/', the file name, or the file name
\* alone when the folder path is empty. The requests are those of the
\* closures of the calls in flight.
C31_FolderPath ==
    /\ \A c \in 1..MaxCalls :
          /\ calls[c].pc = "upload" =>
                UploadRequest(calls[c].props, calls[c].files[calls[c].idx]).folderName
                    = ClaimedFolder(calls[c].props)
          /\ calls[c].pc = "list" =>
                ListRequest(calls[c].props).folderName = ClaimedFolder(calls[c].props)
    /\ \A n \in DeleteNames :
          /\ deletes[n].pc = "delete" =>
                DeleteRequest(deletes[n].props, n).folderName
                    = ClaimedFolder(deletes[n].props)
          /\ deletes[n].pc = "list" =>
                ListRequest(deletes[n].props).folderName = ClaimedFolder(deletes[n].props)
    /\ \A n \in ViewNames :
          views[n].pc = "download" =>
              DownloadRequest(views[n].props, n).filePath
                  = ClaimedFilePath(views[n].props, n)
    /\ listCalls > 0 => ListRequest(props).folderName = ClaimedFolder(props)

\* C31 witness: a download request for a.p is in flight with the file path
\* f/r/a.p, after the host changed the folder name
C31_Witness ==
    /\ views[FileA.name].pc = "download"
    /\ DownloadRequest(views[FileA.name].props, FileA.name).filePath
          = <<"f", "/", "r", "/">> \o FileA.name
    /\ contextChanges = 1


----------------------------------------------------------------------------
(* The sequential upload helper of PowerAutomateCloudFlows.ts.  The variable
   `flow` holds one invocation of uploadMultipleFilesToCloudFlow: its position
   (pc), its input, the index of the file in hand, the results pushed so far
   and the ids of the timeout timers that are armed.  The timer of the call
   for the i-th file has id i. *)

\* the longest input of uploadMultipleFilesToCloudFlow explored
MaxFlowFiles == 2

\* the message of the Error that fileToBase64 rejects with (lines 195-210)
ReadErrors == {<<"Failed to read file">>, <<"reader.error">>}

\* what the promise of fetch() settles with: a 2xx response, a response whose
\* ok is false, or a rejection (a network failure)
FetchOutcomes == {"ok", "notOk", "rejected"}

\* the bodies the upload flow can answer with for `file`, and a body that is
\* no JSON
FlowResponses(file) ==
    {[fileName |-> file.name, url |-> <<"u">>, success |-> TRUE, error |-> Absent],
     [fileName |-> file.name, url |-> <<>>, success |-> FALSE, error |-> <<"flow">>]}

NotJSON == [fileName |-> Absent, url |-> Absent, success |-> FALSE, error |-> <<"SyntaxError">>]

\* the error invokeCloudFlow rethrows from its catch block: an AbortError
\* becomes the time-out message, any other Error is thrown on as it is
Rethrown(error) ==
    IF error = <<"AbortError">> THEN <<"Flow execution timed out">> ELSE error

\* the result the catch block of uploadFileToCloudFlow returns
Caught(file, error) ==
    [fileName |-> file.name, url |-> <<>>, success |-> FALSE, error |-> error]

\* the result uploadFileToCloudFlow builds from the body of the response
Standardized(response) ==
    [fileName |-> response.fileName, url |-> response.url,
     success |-> response.success, error |-> response.error]

\* clearTimeout(timeoutId)
clearTimeout(timers, id) == timers \ {id}

\* the loop of uploadMultipleFilesToCloudFlow pushes the result of the file
\* in hand and goes on to the next file, or returns after the last one
Pushed_Dropped(f, result) ==
    LET i == f.idx + 1
    IN  [f EXCEPT !.idx = i,
                  !.pc = IF i > Len(f.files) THEN "returned" ELSE "read"]

Pushed(f, result) ==
    LET i == f.idx + 1
    IN  [f EXCEPT !.results = Append(f.results, result),
                  !.idx = i,
                  !.pc = IF i > Len(f.files) THEN "returned" ELSE "read"]

\* the helper leaves the component alone
FlowFrame ==
    UNCHANGED <<props, fileStates, existingFiles, cumulativeFilesJSON, adminConfig,
                buttonLoadingState, loadingExistingFiles, calls, listCalls, blob,
                contextChanges, outputs, deletes, progressSimulationIntervals,
                strayIntervals, mounted, localStorage, mountEffectsPending, alerts,
                views, opened, busy>>

\* uploadMultipleFilesToCloudFlow(files, ...) is called: with no file it
\* returns at once, else the first file is handed to fileToBase64
uploadMultipleFilesToCloudFlowOn(files) ==
    /\ flow.pc \in {"idle", "returned", "rejected"}
    /\ flow' = [pc |-> IF files = <<>> THEN "returned" ELSE "read",
                files |-> files, idx |-> 1, results |-> <<>>, timers |-> flow.timers]
    /\ FlowFrame

uploadMultipleFilesToCloudFlow ==
    \E files \in SeqsUpTo(Files, MaxFlowFiles) : uploadMultipleFilesToCloudFlowOn(files)

\* fileToBase64 settles.  Resolved: invokeCloudFlow arms its timer and calls
\* fetch.  Rejected: the catch block of uploadFileToCloudFlow makes the result.
FlowReadResolved ==
    /\ flow.pc = "read"
    /\ flow' = [flow EXCEPT !.pc = "fetch", !.timers = @ \cup {flow.idx}]
    /\ FlowFrame

FlowReadRejectedOn(error) ==
    /\ flow.pc = "read"
    /\ flow' = Pushed(flow, Caught(flow.files[flow.idx], error))
    /\ FlowFrame

FlowReadRejected == \E error \in ReadErrors : FlowReadRejectedOn(error)

\* fetch settles before the timer fires.  The timer is cleared after the
\* await (line 239) and, when the response is not ok or fetch rejected, once
\* more in the catch block (line 248).
FlowFetchDoneOn(outcome) ==
    /\ flow.pc = "fetch"
    /\ flow.idx \in flow.timers
    /\ LET afterAwait == IF outcome = "rejected" THEN flow.timers
                         ELSE clearTimeout(flow.timers, flow.idx)
           afterCatch == clearTimeout(afterAwait, flow.idx)
           error == IF outcome = "notOk" THEN <<"Flow execution failed">>
                    ELSE <<"Failed to fetch">>
       IN  flow' = IF outcome = "ok"
                   THEN [flow EXCEPT !.pc = "json", !.timers = afterAwait]
                   ELSE Pushed([flow EXCEPT !.timers = afterCatch],
                               Caught(flow.files[flow.idx], Rethrown(error)))
    /\ FlowFrame

FlowFetchDone == \E outcome \in FetchOutcomes : FlowFetchDoneOn(outcome)

\* the timer fires while fetch is pending: the controller aborts, fetch
\* rejects with an AbortError and the catch block clears the timer
FlowTimeout ==
    /\ flow.pc = "fetch"
    /\ flow.idx \in flow.timers
    /\ flow' = Pushed([flow EXCEPT !.timers = clearTimeout(flow.timers \ {flow.idx}, flow.idx)],
                      Caught(flow.files[flow.idx], Rethrown(<<"AbortError">>)))
    /\ FlowFrame

\* response.json() settles: with a body the standardized result is returned,
\* with no JSON the error passes both catch blocks
FlowJsonDoneOn(body) ==
    /\ flow.pc = "json"
    /\ flow' = IF body = NotJSON
               THEN Pushed([flow EXCEPT !.timers = clearTimeout(flow.timers, flow.idx)],
                           Caught(flow.files[flow.idx], Rethrown(body.error)))
               ELSE Pushed(flow, Standardized(body))
    /\ FlowFrame

FlowJsonDone ==
    /\ flow.pc = "json"
    /\ \E body \in FlowResponses(flow.files[flow.idx]) \cup {NotJSON} : FlowJsonDoneOn(body)

InitFlows == props = BaseProps(TRUE, TRUE) /\ InitMounted

NextFlows ==
    \/ uploadMultipleFilesToCloudFlow
    \/ FlowReadResolved
    \/ FlowReadRejected
    \/ FlowFetchDone
    \/ FlowTimeout
    \/ FlowJsonDone

SpecFlows == InitFlows /\ [][NextFlows]_vars

----------------------------------------------------------------------------
(* C32 *)

\* the file in hand fails with `error` in this step: its read, its request,
\* its time-out or its non-2xx response
FailsWith(error) ==
    \/ FlowReadRejectedOn(error)
    \/ error = <<"Failed to fetch">> /\ FlowFetchDoneOn("rejected")
    \/ error = <<"Flow execution timed out">> /\ FlowTimeout
    \/ error = <<"Flow execution failed">> /\ FlowFetchDoneOn("notOk")

FailureMessages ==
    ReadErrors \cup {<<"Failed to fetch">>, <<"Flow execution timed out">>,
                     <<"Flow execution failed">>}

\* the file in hand is settled in this step
FileSettles == flow'.idx = flow.idx + 1

\* C32: uploadMultipleFilesToCloudFlow never rejects; every step that settles
\* a file appends exactly one result, so that on return there is one result
\* per file in input order; a file whose read, request, time-out or non-2xx
\* response failed is reported with the name of the file, success = false
\* and the error message; no time-out timer is armed except while the fetch
\* of the file in hand is pending.
C32_OneResultPerFile ==
    [][ /\ flow'.pc # "rejected"
        /\ flow.pc \in {"read", "fetch", "json"} =>
              /\ flow'.files = flow.files
              /\ \/ ~FileSettles /\ flow'.results = flow.results /\ flow'.idx = flow.idx
                 \/ /\ FileSettles
                    /\ Len(flow'.results) = Len(flow.results) + 1
                    /\ SubSeq(flow'.results, 1, Len(flow.results)) = flow.results
              /\ \A error \in FailureMessages :
                    FailsWith(error) =>
                        LET last == flow'.results[Len(flow'.results)]
                        IN  /\ last.fileName = flow.files[flow.idx].name
                            /\ last.success = FALSE
                            /\ last.error = error
        /\ flow'.pc = "returned" => Len(flow'.results) = Len(flow'.files)
        /\ flow'.timers = IF flow'.pc = "fetch" THEN {flow'.idx} ELSE {}
      ]_vars

\* an invocation with two files has returned: the first file timed out, the
\* second was uploaded
C32_Witness ==
    /\ flow.pc = "returned"
    /\ flow.files = <<FileA, FileC>>
    /\ Len(flow.results) = 2
    /\ flow.results[1] = Caught(FileA, <<"Flow execution timed out">>)
    /\ flow.results[2].success
    /\ flow.results[2].fileName = FileC.name


----------------------------------------------------------------------------
(* C33: no entry is left uploading *)

\* no processFiles call is in flight: every Upload All has settled
AllSettled == \A c \in 1..MaxCalls : calls[c].pc = "idle"

\* the entries of the local set that show status uploading
StillUploading == {k \in 1..Len(fileStates) : fileStates[k].status = "uploading"}

\* C33: every entry that enters status uploading reaches completed or failed
\* once the remote calls have returned: after Upload All has settled no entry
\* is left in uploading, for any number of pending valid files and for both
\* values of the allow-multiple-files setting.
C33_NoneLeftUploading == AllSettled => StillUploading = {}


----------------------------------------------------------------------------
(* The list specification: list requests of different contexts in flight.
   The folder of the record bound at the start holds the files of `blob`,
   every other folder is empty; every request is answered with the files of
   the folder it names. *)

\* the folder listed under the props of the start, and the files it holds
HomeFolder == ListRequest(BaseProps(TRUE, TRUE)).folderName

HomeFiles == {JSONFile(f) : f \in Files}

\* the response of the list flow to a request
Served(request) ==
    [ok |-> TRUE, parses |-> TRUE, success |-> TRUE,
     files |-> [kind |-> "array",
                items |-> IF request.folderName = HomeFolder THEN blob ELSE {}]]

\* the list request the context effect sent is answered: one such request
\* is in flight at most, and it was sent under the props now bound
ListAnswered_Effect == EffectListResponseOn(Served(ListRequest(props)))

\* the list request a delete handler sent is answered: it was sent under the
\* props of the render in which the delete was confirmed
ListAnswered_Delete ==
    \E n \in DeleteNames :
        DeleteListResponseOn(n, Served(ListRequest(deletes[n].props)))

DeleteAnswered == \E n \in DeleteNames : DeleteResponseOn(n, GoodDelete)

InitLists ==
    /\ props = BaseProps(TRUE, TRUE)
    /\ adminConfig = [maxTotalFileSizeMB |-> props.maxTotalFileSizeMB,
                      allowedFileTypes |-> props.buttonAllowedFileTypes]
    /\ fileStates = <<>>
    /\ cumulativeFilesJSON = <<>>
    /\ buttonLoadingState = "initial"
    /\ calls = [c \in 1..MaxCalls |-> IdleCall]
    /\ blob = HomeFiles
    /\ contextChanges = 0
    /\ deletes = [n \in DeleteNames |-> IdleDelete]
    /\ progressSimulationIntervals = {}
    /\ strayIntervals = {}
    /\ mounted = TRUE
    /\ localStorage = [item |-> JSONstringify(adminConfig), writable |-> TRUE]
    /\ mountEffectsPending = FALSE
    /\ alerts = {}
    /\ views = [n \in ViewNames |-> IdleView]
    /\ opened = {}
    /\ flow = IdleFlow
    /\ busy = NotBusy
    /\ LET started == LoadExistingStart(props, {}, FALSE)
       IN /\ existingFiles = started[1]
          /\ loadingExistingFiles = started[2]
          /\ listCalls = IF isCloudFlowConfigured(props) THEN 1 ELSE 0
          /\ outputs = onEvents(NoOutputs,
                started[3] \o <<[NoEvent EXCEPT !.filesJSON = JSONstringify(<<>>)]>>)

NextLists ==
    \/ ListAnswered_Effect
    \/ ConfirmDelete
    \/ DeleteAnswered
    \/ ListAnswered_Delete
    \/ FolderChange

SpecLists == InitLists /\ [][NextLists]_vars

----------------------------------------------------------------------------
(* C34: overlapping list calls *)

\* every list response has arrived
NoListPending ==
    /\ listCalls = 0
    /\ \A n \in DeleteNames : deletes[n].pc = "idle"
    /\ \A c \in 1..MaxCalls : calls[c].pc = "idle"

\* C34: when several list calls overlap, once all responses have arrived the
\* existing-remote set equals the response to the list call for the currently
\* bound context; a response to a request of an earlier context never
\* overwrites a newer one.
C34_NewestListWins ==
    NoListPending => existingFiles = ExistingFileStates(Served(ListRequest(props)))


----------------------------------------------------------------------------
(* C35: a context change empties the local set and the cumulative batch *)

\* the dependencies of the effect of lines 357-376
Context(p) ==
    <<p.cloudFlowListFilesUrl, p.containerPath, p.listFilesFolderName, p.recordUid>>

\* processFiles call c started before the context that is bound now
StartedBefore(c) == calls[c].pc # "idle" /\ Context(calls[c].props) # Context(props)

\* the elements of sequence s
Elements(s) == {s[i] : i \in 1..Len(s)}

\* C35: after a context change the local pending set and the cumulative
\* batch are empty, and a processFiles call that started before the change
\* and takes a step after it adds nothing to either of them.
C35_ContextChangeClears ==
    [][ /\ Context(props') # Context(props) =>
              fileStates' = <<>> /\ cumulativeFilesJSON' = <<>>
        /\ \A c \in 1..MaxCalls :
              StartedBefore(c) /\ calls'[c] # calls[c] =>
                  /\ Elements(cumulativeFilesJSON') \subseteq Elements(cumulativeFilesJSON)
                  /\ Elements(fileStates') \subseteq Elements(fileStates)
      ]_vars


----------------------------------------------------------------------------
(* C36: an uploaded file stays in view *)

\* processFiles call c settles in this step, after its list request
BatchSettles(c) == calls[c].pc = "list" /\ calls'[c].pc = "idle"

\* the names shown after the step: the existing-remote set and the local set
ShownNames ==
    {e.name : e \in existingFiles'} \cup
        {fileStates'[k].file.name : k \in 1..Len(fileStates')}

\* C36: a file whose upload succeeded never disappears from view: once its
\* batch has settled it is in the existing-remote set or still in the local
\* set, also when the list request that follows the upload fails.
C36_UploadedStaysInView ==
    [][\A c \in 1..MaxCalls :
          BatchSettles(c) => SuccessfulUploads(calls[c].results) \subseteq ShownNames]_vars


----------------------------------------------------------------------------
(* C37: what a settled delete has reported *)

\* C37: after a successful delete has settled (delete response, list
\* response and both outward events delivered) the existingFiles value last
\* reported outward equals the existing-remote set held by the component,
\* which equals the list response.
C37_ReportedIsHeld ==
    [][\A n \in DeleteNames, r \in ListResponses :
          DeleteListResponseOn(n, r) /\ ~ListThrows(r) =>
              /\ existingFiles' = ExistingFileStates(r)
              /\ outputs'.existingFiles = JSONstringify(existingFiles')]_vars


----------------------------------------------------------------------------
(* C38: the statuses a remote processFiles call reports *)

\* remote processFiles call c starts, leaves its state alone, or returns
CallStarts(c) == calls[c].pc = "idle" /\ calls'[c].pc = "upload"

CallGoesOn(c) == calls[c].pc \in {"upload", "list"} /\ calls'[c].pc # "idle"

CallReturns(c) == calls[c].pc \in {"upload", "list"} /\ calls'[c].pc = "idle"

\* every file of the batch of call c has a result in rs, and it is a success
EveryFileSucceeded(c, rs) ==
    \A k \in 1..Len(calls[c].files) : k <= Len(rs) /\ rs[k].success

\* C38: in remote mode every processFiles call reports InProgress first and
\* then exactly one final status, when it returns; the final status is
\* Completed iff every file of the batch succeeded and Failed iff at least
\* one did not; no final status is reported while the call goes on.
C38_OneFinalStatus ==
    [][\A c \in 1..MaxCalls :
          /\ CallStarts(c) => outputs'.lastUploadStatus = StatusCode("InProgress")
          /\ CallGoesOn(c) => outputs'.lastUploadStatus = outputs.lastUploadStatus
          /\ CallReturns(c) =>
                outputs'.lastUploadStatus =
                    IF EveryFileSucceeded(c, JSONparse(outputs'.uploadResults))
                    THEN StatusCode("Completed") ELSE StatusCode("Failed")]_vars


----------------------------------------------------------------------------
(* The busy specification: deletes, downloads, lists and uploads of a bound
   record whose folder holds two files, one operation at a time, with a
   context change or Clear while it is in flight *)

\* the host clears the delete URL while nothing is in flight
DeleteUrlCleared ==
    /\ Quiet
    /\ UrlChange
    /\ props'.cloudFlowDeleteUrl = <<>>
    /\ props'.cloudFlowDownloadUrl = props.cloudFlowDownloadUrl

NextBusy ==
    \/ EffectListResponse
    \/ Quiet /\ ConfirmDelete
    \/ AnsweredDelete
    \/ AnsweredDeleteList
    \/ Quiet /\ ViewExistingFile
    \/ AnsweredDownload
    \/ Quiet /\ OfferFiles
    \/ Quiet /\ ClickUploadAll
    \/ UploadResponse
    \/ ProcessListResponse
    \/ ClickClear
    \/ ContextChange
    \/ DeleteUrlCleared

SpecBusy == InitLists /\ [][NextBusy]_vars

----------------------------------------------------------------------------
(* C39: busy indicators are cleared when their operation returns *)

\* the handler of a delete, a download or a processFiles call returns
DeleteReturns(n) ==
    \/ deletes[n].pc # "idle" /\ deletes'[n].pc = "idle"
    \/ ConfirmDeleteOn(n) /\ deletes'[n].pc = "idle"

ViewReturns(n) == views[n].pc # "idle" /\ views'[n].pc = "idle"

ProcessReturns(c) == calls[c].pc # "idle" /\ calls'[c].pc = "idle"

\* a call of loadExistingFiles returns: the one of the context effect, of a
\* processFiles call or of a delete handler
ListReturns ==
    \/ listCalls' < listCalls
    \/ \E c \in 1..MaxCalls : calls[c].pc = "list" /\ calls'[c].pc = "idle"
    \/ \E n \in DeleteNames : deletes[n].pc = "list" /\ deletes'[n].pc = "idle"

\* C39: busy indicators never stay set once their operation has returned:
\* after a delete returns (success or failure) the deleting and the
\* delete-confirmation flag of the file are false, after a download returns
\* its viewing flag is false, after a list returns the loading flag is false,
\* and after processFiles returns the button state is Loaded or Initial,
\* never Loading; this for the component as long as it is mounted.
C39_BusyCleared ==
    [][mounted =>
          /\ \A n \in DeleteNames :
                DeleteReturns(n) =>
                    /\ n \notin busy'.deletingFiles
                    /\ n \notin busy'.showDeleteConfirmation
          /\ \A n \in ViewNames : ViewReturns(n) => n \notin busy'.viewingFiles
          /\ ListReturns => ~loadingExistingFiles'
          /\ \A c \in 1..MaxCalls :
                ProcessReturns(c) => buttonLoadingState' \in {"loaded", "initial"}
      ]_vars

\* a delete that failed, a download and an upload have returned and no
\* indicator is set
C39_Witness ==
    /\ mounted
    /\ \E a \in alerts : a.handler = "delete"
    /\ opened # {}
    /\ buttonLoadingState = "loaded"
    /\ busy = NotBusy
    /\ ~loadingExistingFiles
    /\ Quiet

====
